---- MODULE Spec2Model ----
(***************************************************************************)
(* Heap object model of the Wren VM: values, hash map, list, root stack    *)
(* and mark-and-sweep collector (src/vm/wren_value.c, src/vm/wren_utils.c).*)
(***************************************************************************)
EXTENDS Integers, Sequences, FiniteSets, TLC

(***************************************************************************)
(* Bounds of the model.                                                    *)
(***************************************************************************)
\* Number of string keys that are only ever added to the map under test, in
\* a fixed order ("ballast"); the other keys are set and removed freely.
NumBallast == 10
\* How many entries with a NaN key the map under test may collect.
MaxNaNEntries == 1

(***************************************************************************)
(* Program constants.                                                      *)
(***************************************************************************)
MIN_CAPACITY == 16
GROW_FACTOR == 2
MAP_LOAD_PERCENT == 75
\* WREN_MAX_TEMP_ROOTS (wren_vm.h): capacity of the root stack.
MAX_TEMP_ROOTS == 8

(***************************************************************************)
(* uint32_t arithmetic.  A uint32_t is the pair <<hi, lo>> of its 16-bit   *)
(* halves, so that no intermediate result leaves the integers TLC has.     *)
(***************************************************************************)
W16 == 2^16

RECURSIVE Xor16(_, _)
Xor16(a, b) ==
  IF a = 0 THEN b
  ELSE IF b = 0 THEN a
  ELSE ((((a % 2) + (b % 2)) % 2) + (2 * Xor16(a \div 2, b \div 2)))

U32Xor(x, y) == <<Xor16(x[1], y[1]), Xor16(x[2], y[2])>>

\* x * y mod 2^32
U32Mul(x, y) ==
  \* the products are assembled bytewise so that none exceeds 2^31
  LET low  == (x[2] * (y[2] % 256)) + (256 * ((x[2] * (y[2] \div 256)) % 256))
      lo   == low % W16
      cLow == (low \div W16) + ((x[2] * (y[2] \div 256)) \div 256)
      hi   == (cLow + ((x[1] * (y[2] % 256)) % W16)
                    + (256 * ((x[1] * (y[2] \div 256)) % 256))
                    + ((x[2] * (y[1] % 256)) % W16)
                    + (256 * ((x[2] * (y[1] \div 256)) % 256))) % W16
  IN <<hi, lo>>

\* x % m for a small modulus m (an array capacity)
U32Mod(x, m) == (((x[1] % m) * (W16 % m)) + (x[2] % m)) % m

(***************************************************************************)
(* Values (wren_value.h, tagged-union encoding).  A double is the sequence *)
(* <<w3, w2, w1, w0>> of the 16-bit words of its IEEE-754 bits, most       *)
(* significant first.  A pointer to an immutable heap object is the record *)
(* of the object's address (ptr) and of the fields hashing and equality    *)
(* read.                                                                   *)
(***************************************************************************)
Zero4 == <<0, 0, 0, 0>>
NoName == [bytes |-> <<>>, hash |-> <<0, 0>>]
NoObj == [ptr |-> 0, type |-> "none", bytes |-> <<>>, hash |-> <<0, 0>>,
          from |-> Zero4, to |-> Zero4, isInclusive |-> FALSE,
          name |-> NoName, id |-> 0]

NULL_VAL == [tag |-> "null", num |-> Zero4, obj |-> NoObj]
TRUE_VAL == [tag |-> "true", num |-> Zero4, obj |-> NoObj]
FALSE_VAL == [tag |-> "false", num |-> Zero4, obj |-> NoObj]
UNDEFINED_VAL == [tag |-> "undefined", num |-> Zero4, obj |-> NoObj]
NUM_VAL(d) == [tag |-> "num", num |-> d, obj |-> NoObj]
OBJ_VAL(o) == [tag |-> "obj", num |-> Zero4, obj |-> o]

IS_UNDEFINED(v) == v.tag = "undefined"
IS_FALSE(v) == v.tag = "false"
IS_OBJ(v) == v.tag = "obj"
IS_NUM(v) == v.tag = "num"
AS_OBJ(v) == v.obj
AS_NUM(v) == v.num

\* IEEE-754 doubles used by the model
PosZero == <<0, 0, 0, 0>>
NegZero == <<32768, 0, 0, 0>>
One == <<16368, 0, 0, 0>>
Two == <<16384, 0, 0, 0>>
NaN == <<32760, 0, 0, 0>>

DoubleIsNaN(d) ==
  /\ (d[1] % 32768) \div 16 = 2047
  /\ ((d[1] % 16) # 0 \/ d[2] # 0 \/ d[3] # 0 \/ d[4] # 0)
DoubleIsZero(d) == d[1] % 32768 = 0 /\ d[2] = 0 /\ d[3] = 0 /\ d[4] = 0
\* the C operator == on doubles
DoubleEq(a, b) ==
  /\ ~DoubleIsNaN(a)
  /\ ~DoubleIsNaN(b)
  /\ (a = b \/ (DoubleIsZero(a) /\ DoubleIsZero(b)))

(***************************************************************************)
(* Strings and hashing.                                                    *)
(***************************************************************************)
FNV_OFFSET == <<33052, 40389>>   \* 2166136261 = 0x811C9DC5
FNV_PRIME == <<256, 403>>        \* 16777619   = 0x01000193

\* "hash ^= string->value[i]": value[i] is a char, promoted to int and then
\* converted to uint32_t.  With a signed char a byte >= 0x80 is sign-extended.
CharToU32(b, charIsSigned) ==
  IF charIsSigned /\ b >= 128 THEN <<W16 - 1, (W16 - 256) + b>> ELSE <<0, b>>

\* The loop of hashString from byte i on.  (The test of next[1], which always
\* holds, has each step computed before the next one starts.)
RECURSIVE hashStringFrom(_, _, _, _)
hashStringFrom(bytes, i, hash, charIsSigned) ==
  IF i > Len(bytes) THEN hash
  ELSE LET next == U32Mul(U32Xor(hash, CharToU32(bytes[i], charIsSigned)),
                          FNV_PRIME)
       IN IF next[1] < W16
          THEN hashStringFrom(bytes, i + 1, next, charIsSigned)
          ELSE <<0, 0>>

\* hashString in a build where char is signed (charIsSigned) or unsigned
hashStringOn(bytes, charIsSigned) ==
  hashStringFrom(bytes, 1, FNV_OFFSET, charIsSigned)

\* hashString of bytes below 0x80 (the strings of the map, the list and the
\* heap), for which the two builds agree.
hashString(bytes) == hashStringOn(bytes, TRUE)

\* wrenNewString in a build where char is signed or unsigned
wrenNewStringOn(ptr, bytes, charIsSigned) ==
  [NoObj EXCEPT !.ptr = ptr, !.type = "string", !.bytes = bytes,
                !.hash = hashStringOn(bytes, charIsSigned)]

\* wrenNewString: the object at address ptr holding bytes, hash computed once
wrenNewString(ptr, bytes) ==
  [NoObj EXCEPT !.ptr = ptr, !.type = "string", !.bytes = bytes,
                !.hash = hashString(bytes)]

hashNumber(d) == U32Xor(<<d[1], d[2]>>, <<d[3], d[4]>>)

hashObject(object) ==
  CASE object.type = "class" -> object.name.hash
    [] object.type = "fiber" -> <<0, object.id>>
    [] object.type = "range" -> U32Xor(hashNumber(object.from), hashNumber(object.to))
    [] object.type = "string" -> object.hash
    [] OTHER -> <<0, 0>>

hashValue(value) ==
  CASE value.tag = "false" -> <<0, 0>>
    [] value.tag = "null" -> <<0, 1>>
    [] value.tag = "num" -> hashNumber(AS_NUM(value))
    [] value.tag = "true" -> <<0, 2>>
    [] value.tag = "obj" -> hashObject(AS_OBJ(value))
    [] OTHER -> <<0, 0>>

wrenValuesSame(a, b) ==
  IF a.tag # b.tag THEN FALSE
  ELSE IF a.tag = "num" THEN DoubleEq(a.num, b.num)
  ELSE a.obj.ptr = b.obj.ptr

wrenValuesEqual(a, b) ==
  IF wrenValuesSame(a, b) THEN TRUE
  ELSE IF ~IS_OBJ(a) \/ ~IS_OBJ(b) THEN FALSE
  ELSE LET aObj == AS_OBJ(a)
           bObj == AS_OBJ(b)
       IN IF aObj.type # bObj.type THEN FALSE
          ELSE CASE aObj.type = "range" ->
                      /\ DoubleEq(aObj.from, bObj.from)
                      /\ DoubleEq(aObj.to, bObj.to)
                      /\ aObj.isInclusive = bObj.isInclusive
                 [] aObj.type = "string" ->
                      /\ Len(aObj.bytes) = Len(bObj.bytes)
                      /\ aObj.hash = bObj.hash
                      /\ aObj.bytes = bObj.bytes
                 [] OTHER -> FALSE

(***************************************************************************)
(* The root stack (wrenPushRoot / wrenPopRoot).  rs.stack is the stack of  *)
(* rooted object addresses; rs.trace records the pushes and pops of the    *)
(* operation in progress, each with the depth it leaves.  AS_OBJ(v).ptr is *)
(* the address a pointer value holds.                                      *)
(***************************************************************************)
wrenPushRoot(rs, obj) ==
  [rs EXCEPT !.stack = Append(rs.stack, obj),
             !.trace = Append(rs.trace, [ev |-> "push", ptr |-> obj,
                                         depth |-> Len(rs.stack) + 1])]

wrenPopRoot(rs) ==
  IF Len(rs.stack) = 0
  THEN [rs EXCEPT !.trace = Append(rs.trace, [ev |-> "underflow", ptr |-> 0,
                                              depth |-> 0])]
  ELSE [rs EXCEPT !.stack = SubSeq(rs.stack, 1, Len(rs.stack) - 1),
                  !.trace = Append(rs.trace,
                                   [ev |-> "pop", ptr |-> rs.stack[Len(rs.stack)],
                                    depth |-> Len(rs.stack) - 1])]

(***************************************************************************)
(* Hash map.  A map is [capacity, count, entries]; entries is the array    *)
(* indexed 0 .. capacity-1 (the empty function when entries is NULL).      *)
(***************************************************************************)
EmptyEntry == [key |-> UNDEFINED_VAL, value |-> FALSE_VAL]
TombstoneEntry == [key |-> UNDEFINED_VAL, value |-> TRUE_VAL]

wrenNewMap == [capacity |-> 0, count |-> 0, entries |-> <<>>]

\* The while (true) loop of addEntry.  The loop changes nothing until it
\* exits, so once it has visited all [capacity] slots without exiting it
\* repeats the same visits for ever: returns is then FALSE.
RECURSIVE addEntryProbe(_, _, _, _, _, _)
addEntryProbe(entries, capacity, key, value, index, visited) ==
  IF visited = capacity
  THEN [entries |-> entries, isNew |-> FALSE, returns |-> FALSE]
  ELSE LET entry == entries[index]
       IN IF IS_UNDEFINED(entry.key) /\ IS_FALSE(entry.value)
          THEN [entries |-> [entries EXCEPT ![index] = [key |-> key, value |-> value]],
                isNew |-> TRUE, returns |-> TRUE]
          ELSE IF ~IS_UNDEFINED(entry.key) /\ wrenValuesEqual(entry.key, key)
          THEN [entries |-> [entries EXCEPT ![index].value = value],
                isNew |-> FALSE, returns |-> TRUE]
          ELSE addEntryProbe(entries, capacity, key, value,
                             (index + 1) % capacity, visited + 1)

\* Variant: reports every key as new, also when it overwrites an equal key.
addEntry_AlwaysNew(entries, capacity, key, value) ==
  [addEntryProbe(entries, capacity, key, value,
                 U32Mod(hashValue(key), capacity), 0) EXCEPT !.isNew = TRUE]

addEntry(entries, capacity, key, value) ==
  addEntryProbe(entries, capacity, key, value,
                U32Mod(hashValue(key), capacity), 0)

RECURSIVE reAddEntries(_, _, _, _, _)
reAddEntries(old, oldCapacity, i, entries, capacity) ==
  IF i >= oldCapacity THEN entries
  ELSE IF IS_UNDEFINED(old[i].key)
  THEN reAddEntries(old, oldCapacity, i + 1, entries, capacity)
  ELSE reAddEntries(old, oldCapacity, i + 1,
                    addEntry(entries, capacity, old[i].key, old[i].value).entries,
                    capacity)

\* Variant: copies the old slots to the same indices of the new array instead
\* of adding each entry again.
resizeMap_CopiesSlots(map, capacity) ==
  [map EXCEPT !.entries = [i \in 0 .. capacity - 1 |->
                             IF i < map.capacity THEN map.entries[i]
                             ELSE EmptyEntry],
              !.capacity = capacity]

resizeMap(map, capacity) ==
  LET fresh == [i \in 0 .. capacity - 1 |-> EmptyEntry]
      entries == IF map.capacity > 0
                 THEN reAddEntries(map.entries, map.capacity, 0, fresh, capacity)
                 ELSE fresh
  IN [map EXCEPT !.entries = entries, !.capacity = capacity]

\* The while (true) loop of findEntry; found = FALSE is the NULL result.
RECURSIVE findEntryProbe(_, _, _, _)
findEntryProbe(map, key, index, visited) ==
  IF visited = map.capacity
  THEN [found |-> FALSE, index |-> 0, returns |-> FALSE]
  ELSE LET entry == map.entries[index]
       IN IF IS_UNDEFINED(entry.key) /\ IS_FALSE(entry.value)
          THEN [found |-> FALSE, index |-> 0, returns |-> TRUE]
          ELSE IF ~IS_UNDEFINED(entry.key) /\ wrenValuesEqual(entry.key, key)
          THEN [found |-> TRUE, index |-> index, returns |-> TRUE]
          ELSE findEntryProbe(map, key, (index + 1) % map.capacity, visited + 1)

\* Variant: looks at the key's home slot only and never probes further.
findEntry_HomeSlotOnly(map, key) ==
  IF map.capacity = 0 THEN [found |-> FALSE, index |-> 0, returns |-> TRUE]
  ELSE LET index == U32Mod(hashValue(key), map.capacity)
           entry == map.entries[index]
       IN [found |-> ~IS_UNDEFINED(entry.key) /\ wrenValuesEqual(entry.key, key),
           index |-> index, returns |-> TRUE]

findEntry(map, key) ==
  IF map.capacity = 0 THEN [found |-> FALSE, index |-> 0, returns |-> TRUE]
  ELSE findEntryProbe(map, key, U32Mod(hashValue(key), map.capacity), 0)

wrenMapGet(map, key) ==
  LET entry == findEntry(map, key)
  IN IF ~entry.returns THEN [returns |-> FALSE, value |-> UNDEFINED_VAL]
     ELSE IF entry.found
     THEN [returns |-> TRUE, value |-> map.entries[entry.index].value]
     ELSE [returns |-> TRUE, value |-> UNDEFINED_VAL]

\* Variant: grows only when the table is full (load 100% instead of 75%).
wrenMapSet_GrowWhenFull(map, key, value) ==
  LET grown == IF map.count + 1 > map.capacity
               THEN LET capacity == map.capacity * GROW_FACTOR
                    IN resizeMap(map, IF capacity < MIN_CAPACITY
                                      THEN MIN_CAPACITY ELSE capacity)
               ELSE map
      added == addEntry(grown.entries, grown.capacity, key, value)
  IN IF ~added.returns THEN [map |-> grown, returns |-> FALSE]
     ELSE [map |-> [grown EXCEPT !.entries = added.entries,
                                 !.count = IF added.isNew THEN @ + 1 ELSE @],
           returns |-> TRUE]

wrenMapSet(map, key, value) ==
  LET grown == IF map.count + 1 > (map.capacity * MAP_LOAD_PERCENT) \div 100
               THEN LET capacity == map.capacity * GROW_FACTOR
                    IN resizeMap(map, IF capacity < MIN_CAPACITY
                                      THEN MIN_CAPACITY ELSE capacity)
               ELSE map
      added == addEntry(grown.entries, grown.capacity, key, value)
  IN IF ~added.returns THEN [map |-> grown, returns |-> FALSE]
     ELSE [map |-> [grown EXCEPT !.entries = added.entries,
                                 !.count = IF added.isNew THEN @ + 1 ELSE @],
           returns |-> TRUE]

wrenMapClear(map) == [map EXCEPT !.entries = <<>>, !.capacity = 0, !.count = 0]

\* Variant: keeps the entry array when the last key is removed.
wrenMapRemoveKey_KeepsEmptyTable(map, rs, key) ==
  LET entry == findEntry(map, key)
  IN IF ~entry.returns
     THEN [map |-> map, rs |-> rs, value |-> NULL_VAL, returns |-> FALSE]
     ELSE IF ~entry.found
     THEN [map |-> map, rs |-> rs, value |-> NULL_VAL, returns |-> TRUE]
     ELSE [map |-> [map EXCEPT !.entries[entry.index] = TombstoneEntry,
                               !.count = @ - 1],
           rs |-> rs, value |-> map.entries[entry.index].value,
           returns |-> TRUE]

\* Result: the map, the root stack, the returned value, and whether the call
\* returns at all.
wrenMapRemoveKey(map, rs, key) ==
  LET entry == findEntry(map, key)
  IN IF ~entry.returns
     THEN [map |-> map, rs |-> rs, value |-> NULL_VAL, returns |-> FALSE]
     ELSE IF ~entry.found
     THEN [map |-> map, rs |-> rs, value |-> NULL_VAL, returns |-> TRUE]
     ELSE
       LET value == map.entries[entry.index].value
           marked == [map EXCEPT !.entries[entry.index] = TombstoneEntry,
                                 !.count = @ - 1]
           rs1 == IF IS_OBJ(value) THEN wrenPushRoot(rs, AS_OBJ(value).ptr) ELSE rs
           after ==
             IF marked.count = 0 THEN wrenMapClear(marked)
             ELSE IF /\ marked.capacity > MIN_CAPACITY
                     /\ marked.count <
                          ((marked.capacity \div GROW_FACTOR) * MAP_LOAD_PERCENT) \div 100
             THEN LET capacity == marked.capacity \div GROW_FACTOR
                  IN resizeMap(marked, IF capacity < MIN_CAPACITY
                                       THEN MIN_CAPACITY ELSE capacity)
             ELSE marked
           rs2 == IF IS_OBJ(value) THEN wrenPopRoot(rs1) ELSE rs1
       IN [map |-> after, rs |-> rs2, value |-> value, returns |-> TRUE]

(***************************************************************************)
(* List.  A list's ValueBuffer is [capacity, count, data]; data is the     *)
(* array indexed 0 .. capacity-1.  A slot that has been allocated and      *)
(* never written holds GARBAGE_VAL.                                        *)
(***************************************************************************)
GARBAGE_VAL == [tag |-> "garbage", num |-> Zero4, obj |-> NoObj]
NoGcPoint == [reached |-> FALSE, capacity |-> 0, count |-> 0]

\* wrenNewList does not write the elements: [contents] is what the fresh
\* array happens to hold (and what the caller then stores in it).
wrenNewList(numElements, contents) ==
  [capacity |-> numElements, count |-> numElements,
   data |-> [i \in 0 .. numElements - 1 |-> contents[i]]]

\* wrenValueBufferWrite (DEFINE_BUFFER): append, growing 0 -> 16 -> * 2.
\* gcPoint is the buffer as a collection run by the reallocation sees it.
wrenValueBufferWrite(buffer, data) ==
  LET grows == buffer.capacity < buffer.count + 1
      capacity == IF buffer.capacity = 0 THEN 16 ELSE buffer.capacity * 2
      grown == IF grows
               THEN [buffer EXCEPT
                       !.capacity = capacity,
                       !.data = [i \in 0 .. capacity - 1 |->
                                   IF i < buffer.capacity THEN buffer.data[i]
                                   ELSE GARBAGE_VAL]]
               ELSE buffer
  IN [buffer |-> [grown EXCEPT !.data[grown.count] = data, !.count = @ + 1],
      gcPoint |-> IF grows
                  THEN [reached |-> TRUE, capacity |-> buffer.capacity,
                        count |-> buffer.count]
                  ELSE NoGcPoint]

\* Variant: the shift stops one slot early, leaving data[index + 1] unmoved.
RECURSIVE listShiftDown_StopsEarly(_, _, _)
listShiftDown_StopsEarly(data, i, index) ==
  IF i > index + 1
  THEN listShiftDown_StopsEarly([data EXCEPT ![i] = data[i - 1]], i - 1, index)
  ELSE data

\* for (i = count - 1; i > index; i--) data[i] = data[i - 1];
RECURSIVE listShiftDown(_, _, _)
listShiftDown(data, i, index) ==
  IF i > index
  THEN listShiftDown([data EXCEPT ![i] = data[i - 1]], i - 1, index)
  ELSE data

\* for (i = index; i < count - 1; i++) data[i] = data[i + 1];
RECURSIVE listShiftUp(_, _, _)
listShiftUp(data, i, count) ==
  IF i < count - 1
  THEN listShiftUp([data EXCEPT ![i] = data[i + 1]], i + 1, count)
  ELSE data

wrenListInsert(list, rs, value, index) ==
  LET rs1 == IF IS_OBJ(value) THEN wrenPushRoot(rs, AS_OBJ(value).ptr) ELSE rs
      written == wrenValueBufferWrite(list, NULL_VAL)
      rs2 == IF IS_OBJ(value) THEN wrenPopRoot(rs1) ELSE rs1
      shifted == listShiftDown(written.buffer.data, written.buffer.count - 1, index)
  IN [list |-> [written.buffer EXCEPT !.data = [shifted EXCEPT ![index] = value]],
      rs |-> rs2, gcPoint |-> written.gcPoint]

\* Variant: the shrink test reads the count after the removal.
wrenListRemoveAt_ShrinkAfterCount(list, rs, index) ==
  LET removed == list.data[index]
      rs1 == IF IS_OBJ(removed) THEN wrenPushRoot(rs, AS_OBJ(removed).ptr) ELSE rs
      shifted == [list EXCEPT !.data = listShiftUp(list.data, index, list.count)]
      shrinks == shifted.capacity \div GROW_FACTOR >= shifted.count - 1
      capacity == shifted.capacity \div GROW_FACTOR
      shrunk == IF shrinks
                THEN [shifted EXCEPT
                        !.data = [i \in 0 .. capacity - 1 |-> shifted.data[i]],
                        !.capacity = capacity]
                ELSE shifted
      rs2 == IF IS_OBJ(removed) THEN wrenPopRoot(rs1) ELSE rs1
  IN [list |-> [shrunk EXCEPT !.count = @ - 1], rs |-> rs2, value |-> removed,
      gcPoint |-> IF shrinks
                  THEN [reached |-> TRUE, capacity |-> shifted.capacity,
                        count |-> shifted.count]
                  ELSE NoGcPoint]

wrenListRemoveAt(list, rs, index) ==
  LET removed == list.data[index]
      rs1 == IF IS_OBJ(removed) THEN wrenPushRoot(rs, AS_OBJ(removed).ptr) ELSE rs
      shifted == [list EXCEPT !.data = listShiftUp(list.data, index, list.count)]
      shrinks == shifted.capacity \div GROW_FACTOR >= shifted.count
      capacity == shifted.capacity \div GROW_FACTOR
      shrunk == IF shrinks
                THEN [shifted EXCEPT
                        !.data = [i \in 0 .. capacity - 1 |-> shifted.data[i]],
                        !.capacity = capacity]
                ELSE shifted
      rs2 == IF IS_OBJ(removed) THEN wrenPopRoot(rs1) ELSE rs1
  IN [list |-> [shrunk EXCEPT !.count = @ - 1], rs |-> rs2, value |-> removed,
      gcPoint |-> IF shrinks
                  THEN [reached |-> TRUE, capacity |-> shifted.capacity,
                        count |-> shifted.count]
                  ELSE NoGcPoint]

(***************************************************************************)
(* The heap.  An Obj* is an address in Addrs, NULL is 0.  vm.heap maps     *)
(* each address to the object stored there: the Obj header (type, marked,  *)
(* classObj, next) and the fields of its kind, buffers included; an        *)
(* address that holds no object holds FreeCell.  The operators below take  *)
(* and return the record vm: heap, first (vm->first), classClass and       *)
(* nextFiberId, fiber and modules (the interpreter's roots), stack and     *)
(* trace (the root stack, as above), gcs, the collections run so far in    *)
(* the operation in progress, and visits, the objects the mark phase in    *)
(* progress has traversed.  vm->bytesAllocated is not in the record.       *)
(***************************************************************************)
\* number of addresses
MaxObjs == 10
NULL == 0
Addrs == 1 .. MaxObjs
FreeCell == [type |-> "free", marked |-> FALSE, classObj |-> NULL, next |-> NULL]

IsFree(vm, a) == vm.heap[a].type = "free"
FreeAddrs(vm) == {a \in Addrs : IsFree(vm, a)}
Live(vm) == Addrs \ FreeAddrs(vm)
OfType(vm, type) == {a \in Addrs : vm.heap[a].type = type}

\* The Value OBJ_VAL(obj) for the object at address obj.
ObjVal(vm, obj) ==
  LET o == vm.heap[obj]
  IN OBJ_VAL(
       CASE o.type = "string" ->
              [NoObj EXCEPT !.ptr = obj, !.type = o.type,
                            !.bytes = o.bytes, !.hash = o.hash]
         [] o.type = "range" ->
              [NoObj EXCEPT !.ptr = obj, !.type = o.type, !.from = o.from,
                            !.to = o.to, !.isInclusive = o.isInclusive]
         [] o.type = "fiber" ->
              [NoObj EXCEPT !.ptr = obj, !.type = o.type, !.id = o.id]
         [] o.type = "class" /\ o.name # NULL ->
              [NoObj EXCEPT !.ptr = obj, !.type = o.type,
                            !.name = [bytes |-> vm.heap[o.name].bytes,
                                      hash |-> vm.heap[o.name].hash]]
         [] OTHER -> [NoObj EXCEPT !.ptr = obj, !.type = o.type])

(***************************************************************************)
(* Marking.                                                                *)
(***************************************************************************)
RECURSIVE wrenMarkObj(_, _)

wrenMarkValue(vm, value) ==
  IF ~IS_OBJ(value) THEN vm ELSE wrenMarkObj(vm, AS_OBJ(value).ptr)

\* for (i = 0; i < buffer->count; i++) wrenMarkValue(vm, buffer->data[i]);
RECURSIVE wrenMarkBufferFrom(_, _, _)
wrenMarkBufferFrom(vm, buffer, i) ==
  IF i < buffer.count
  THEN wrenMarkBufferFrom(wrenMarkValue(vm, buffer.data[i]), buffer, i + 1)
  ELSE vm

wrenMarkBuffer(vm, buffer) == wrenMarkBufferFrom(vm, buffer, 0)

\* wrenMarkValue on values[i], values[i + 1], ...: the loops over an
\* instance's fields, a function's constants and a fiber's stack slots.
RECURSIVE markValuesFrom(_, _, _)
markValuesFrom(vm, values, i) ==
  IF i <= Len(values)
  THEN markValuesFrom(wrenMarkValue(vm, values[i]), values, i + 1)
  ELSE vm

\* wrenMarkObj on objs[i], objs[i + 1], ...: the loops over a closure's
\* upvalues and a fiber's frames.
RECURSIVE markObjsFrom(_, _, _)
markObjsFrom(vm, objs, i) ==
  IF i <= Len(objs)
  THEN markObjsFrom(wrenMarkObj(vm, objs[i]), objs, i + 1)
  ELSE vm

\* for (i = 0; i < methods.count; i++) if (type == METHOD_BLOCK) mark fn.obj
RECURSIVE markMethodsFrom(_, _, _)
markMethodsFrom(vm, methods, i) ==
  IF i < methods.count
  THEN markMethodsFrom(IF methods.data[i + 1].type = "block"
                       THEN wrenMarkObj(vm, methods.data[i + 1].fn) ELSE vm,
                       methods, i + 1)
  ELSE vm

\* markClass without the mark of the metaclass.
markClass_SkipsMetaclass(vm, classObj) ==
  LET c == vm.heap[classObj]
      v2 == wrenMarkObj(vm, c.superclass)
      v3 == markMethodsFrom(v2, c.methods, 0)
  IN wrenMarkObj(v3, c.name)

markClass(vm, classObj) ==
  LET c == vm.heap[classObj]
      v1 == wrenMarkObj(vm, c.classObj)
      v2 == wrenMarkObj(v1, c.superclass)
      v3 == markMethodsFrom(v2, c.methods, 0)
  IN wrenMarkObj(v3, c.name)

markClosure(vm, closure) ==
  LET c == vm.heap[closure]
      v1 == wrenMarkObj(vm, c.fn)
  IN markObjsFrom(v1, SubSeq(c.upvalues, 1, vm.heap[c.fn].numUpvalues), 1)

\* while (upvalue != NULL) { wrenMarkObj(upvalue); upvalue = upvalue->next; }
RECURSIVE markOpenUpvalues(_, _)
markOpenUpvalues(vm, upvalue) ==
  IF upvalue = NULL THEN vm
  ELSE markOpenUpvalues(wrenMarkObj(vm, upvalue), vm.heap[upvalue].nextUpvalue)

markFiber(vm, fiber) ==
  LET f == vm.heap[fiber]
      v1 == markObjsFrom(vm, SubSeq(f.frames, 1, f.numFrames), 1)
      v2 == markValuesFrom(v1, f.stack, 1)
      v3 == markOpenUpvalues(v2, f.openUpvalues)
      v4 == wrenMarkObj(v3, f.caller)
  IN wrenMarkObj(v4, f.error)

markFn(vm, fn) ==
  LET f == vm.heap[fn]
      v1 == markValuesFrom(vm, SubSeq(f.constants, 1, f.numConstants), 1)
  IN IF f.sourcePath # NULL THEN wrenMarkObj(v1, f.sourcePath) ELSE v1

markInstance(vm, instance) ==
  LET o == vm.heap[instance]
      v1 == wrenMarkObj(vm, o.classObj)
  IN markValuesFrom(v1, SubSeq(o.fields, 1, vm.heap[o.classObj].numFields), 1)

\* markList without the mark of the elements.
markList_SkipsElements(vm, list) == vm

markList(vm, list) == wrenMarkBuffer(vm, vm.heap[list].elements)

\* for (i = 0; i < capacity; i++) { if (IS_UNDEFINED(key)) continue; ... }
RECURSIVE markMapFrom(_, _, _)
markMapFrom(vm, m, i) ==
  IF i < m.capacity
  THEN markMapFrom(IF IS_UNDEFINED(m.entries[i].key) THEN vm
                   ELSE wrenMarkValue(wrenMarkValue(vm, m.entries[i].key),
                                      m.entries[i].value),
                   m, i + 1)
  ELSE vm

markMap(vm, map) == markMapFrom(vm, vm.heap[map].map, 0)

markModule(vm, module) ==
  LET m == vm.heap[module]
      v1 == wrenMarkBuffer(vm, m.variables)
  IN wrenMarkObj(v1, m.name)

markRange(vm, range) == vm

markString(vm, string) == vm

markUpvalue(vm, upvalue) == wrenMarkValue(vm, vm.heap[upvalue].closed)

wrenMarkObj(vm, obj) ==
  IF obj = NULL THEN vm
  ELSE IF vm.heap[obj].marked THEN vm
  ELSE LET v == [vm EXCEPT !.heap[obj].marked = TRUE,
                           !.visits = Append(@, obj)]
           type == vm.heap[obj].type
       IN CASE type = "class" -> markClass(v, obj)
            [] type = "closure" -> markClosure(v, obj)
            [] type = "fiber" -> markFiber(v, obj)
            [] type = "fn" -> markFn(v, obj)
            [] type = "instance" -> markInstance(v, obj)
            [] type = "list" -> markList(v, obj)
            [] type = "map" -> markMap(v, obj)
            [] type = "module" -> markModule(v, obj)
            [] type = "range" -> markRange(v, obj)
            [] type = "string" -> markString(v, obj)
            [] type = "upvalue" -> markUpvalue(v, obj)
            [] OTHER -> v

\* Releasing the object releases the buffers it owns: they are part of the
\* cell.
wrenFreeObj(vm, obj) == [vm EXCEPT !.heap[obj] = FreeCell]

(***************************************************************************)
(* Memory accounting.  A number of bytes is a sum of sizes that depend on  *)
(* the build: it is written as the function that gives, for each unit of   *)
(* Units, how many times sizeof(unit) is in the sum.                       *)
(***************************************************************************)
Units == {"ObjClass", "Method", "ObjClosure", "ObjUpvalue*", "ObjFiber",
          "ObjFn", "uint8_t", "Value", "int", "FnDebug", "char",
          "ObjInstance", "ObjList", "ObjMap", "MapEntry", "ObjModule",
          "ObjRange", "ObjString", "ObjUpvalue"}
NoBytes == [u \in Units |-> 0]
SizeOf(unit, n) == [u \in Units |-> IF u = unit THEN n ELSE 0]
Plus(x, y) == [u \in Units |-> x[u] + y[u]]

\* What the mark function of the object at a adds to vm->bytesAllocated.
markBytes(heap, a) ==
  LET o == heap[a]
  IN CASE o.type = "class" ->
            Plus(SizeOf("ObjClass", 1), SizeOf("Method", o.methods.capacity))
       [] o.type = "closure" ->
            Plus(SizeOf("ObjClosure", 1),
                 SizeOf("ObjUpvalue*", heap[o.fn].numUpvalues))
       [] o.type = "fiber" -> SizeOf("ObjFiber", 1)
       [] o.type = "fn" ->
            Plus(Plus(SizeOf("ObjFn", 1), SizeOf("uint8_t", o.bytecodeLength)),
                 Plus(SizeOf("Value", o.numConstants),
                      SizeOf("int", o.bytecodeLength)))
       [] o.type = "instance" ->
            Plus(SizeOf("ObjInstance", 1),
                 SizeOf("Value", heap[o.classObj].numFields))
       [] o.type = "list" ->
            Plus(SizeOf("ObjList", 1), SizeOf("Value", o.elements.capacity))
       [] o.type = "map" ->
            Plus(SizeOf("ObjMap", 1), SizeOf("MapEntry", o.map.capacity))
       [] o.type = "module" -> SizeOf("ObjModule", 1)
       [] o.type = "range" -> SizeOf("ObjRange", 1)
       [] o.type = "string" ->
            Plus(SizeOf("ObjString", 1), SizeOf("char", Len(o.bytes) + 1))
       [] o.type = "upvalue" -> SizeOf("ObjUpvalue", 1)
       [] OTHER -> NoBytes

\* The bytes the object at a owns: what its constructor and the operations
\* on it have allocated for it, and wrenFreeObj releases.
ownedBytes(heap, a) ==
  LET o == heap[a]
  IN CASE o.type = "class" ->
            Plus(SizeOf("ObjClass", 1), SizeOf("Method", o.methods.capacity))
       [] o.type = "closure" ->
            Plus(SizeOf("ObjClosure", 1), SizeOf("ObjUpvalue*", Len(o.upvalues)))
       [] o.type = "fiber" -> SizeOf("ObjFiber", 1)
       [] o.type = "fn" ->
            Plus(Plus(Plus(SizeOf("ObjFn", 1), SizeOf("Value", Len(o.constants))),
                      Plus(SizeOf("uint8_t", o.bytecodeLength),
                           SizeOf("int", o.bytecodeLength))),
                 Plus(SizeOf("FnDebug", 1), SizeOf("char", o.debugNameLength + 1)))
       [] o.type = "instance" ->
            Plus(SizeOf("ObjInstance", 1), SizeOf("Value", Len(o.fields)))
       [] o.type = "list" ->
            Plus(SizeOf("ObjList", 1), SizeOf("Value", o.elements.capacity))
       [] o.type = "map" ->
            Plus(SizeOf("ObjMap", 1), SizeOf("MapEntry", o.map.capacity))
       [] o.type = "module" ->
            Plus(SizeOf("ObjModule", 1), SizeOf("Value", o.variables.capacity))
       [] o.type = "range" -> SizeOf("ObjRange", 1)
       [] o.type = "string" ->
            Plus(SizeOf("ObjString", 1), SizeOf("char", Len(o.bytes) + 1))
       [] o.type = "upvalue" -> SizeOf("ObjUpvalue", 1)
       [] OTHER -> NoBytes

(***************************************************************************)
(* The collector (wren_vm.c): mark the roots, then sweep the object list.  *)
(***************************************************************************)
\* wrenMarkObj on every module of the module table, in address order
RECURSIVE markModules(_, _)
markModules(vm, a) ==
  IF a > MaxObjs THEN vm
  ELSE markModules(IF a \in vm.modules THEN wrenMarkObj(vm, a) ELSE vm, a + 1)

markRoots(vm) ==
  LET v1 == wrenMarkObj(vm, vm.fiber)
      v2 == markModules(v1, 1)
  IN markObjsFrom(v2, vm.stack, 1)

\* obj walks the list from vm->first; prev is the last survivor before it.
RECURSIVE sweep(_, _, _)
sweep(vm, prev, obj) ==
  IF obj = NULL THEN vm
  ELSE LET next == vm.heap[obj].next
       IN IF ~vm.heap[obj].marked
          THEN sweep(wrenFreeObj(IF prev = NULL
                                 THEN [vm EXCEPT !.first = next]
                                 ELSE [vm EXCEPT !.heap[prev].next = next],
                                 obj),
                     prev, next)
          ELSE sweep([vm EXCEPT !.heap[obj].marked = FALSE], obj, next)

Marked(vm) == {a \in Addrs : vm.heap[a].marked}

\* The objects on the list of all objects, from obj on.
RECURSIVE Listed(_, _)
Listed(vm, obj) ==
  IF obj = NULL THEN {} ELSE {obj} \cup Listed(vm, vm.heap[obj].next)

\* The sweep of a collection on vm whose mark phase has left marked; gcs
\* gets the record of the collection.
sweepMarked(vm, marked) ==
  LET swept == sweep(marked, NULL, marked.first)
  IN [swept EXCEPT
        !.visits = <<>>,
        !.gcs = Append(@, [listed |-> Listed(vm, vm.first),
                           fiber |-> vm.fiber, modules |-> vm.modules,
                           stack |-> vm.stack,
                           marked |-> Marked(marked), visits |-> marked.visits,
                           heapAfter |-> swept.heap,
                           firstAfter |-> swept.first])]

collectGarbage(vm) == sweepMarked(vm, markRoots(vm))

\* wrenReallocate for a request of more than 0 bytes: gc tells whether
\* bytesAllocated has passed nextGC, so that a collection runs first.
wrenReallocate(vm, gc) == IF gc THEN collectGarbage(vm) ELSE vm

\* The address malloc returns is the lowest free one.
malloc(vm) ==
  [vm |-> vm,
   obj |-> CHOOSE a \in FreeAddrs(vm) : \A b \in FreeAddrs(vm) : a <= b]

\* ALLOCATE / ALLOCATE_FLEX
ALLOCATE(vm, gc) == malloc(wrenReallocate(vm, gc))

(***************************************************************************)
(* Constructors.  Each takes the vm and returns [vm, obj]: the vm after    *)
(* the call and the address of the new object.  The argument gc of a       *)
(* constructor says at which of its allocations, if any, a collection      *)
(* runs.                                                                   *)
(***************************************************************************)
initObj(vm, obj, type, classObj) ==
  [vm EXCEPT !.heap[obj] = [type |-> type, marked |-> FALSE,
                            classObj |-> classObj, next |-> vm.first],
             !.first = obj]

\* The body of a constructor after its ALLOCATE, which returned a: initObj,
\* then the assignments to the fields of the new object.
construct(a, type, classObj, fields) ==
  [vm |-> [initObj(a.vm, a.obj, type, classObj) EXCEPT
             !.heap[a.obj] = @ @@ fields],
   obj |-> a.obj]

\* rootedInit without the wrenPopRoot.
rootedInit_NoPop(r) == [r EXCEPT !.vm = wrenPushRoot(r.vm, r.obj)]

\* wrenPushRoot(vm, obj) ... wrenPopRoot(vm) around the initialisation of the
\* buffers of the new object r.obj, which allocates nothing.
rootedInit(r) == [r EXCEPT !.vm = wrenPopRoot(wrenPushRoot(r.vm, r.obj))]

\* wrenMethodBufferInit; METHOD_NONE is the entry wrenBindMethod fills with:
\* only its type is set, and nothing reads more of an entry of that type.
NoMethods == [capacity |-> 0, count |-> 0, data |-> <<>>]
METHOD_NONE == [type |-> "none", fn |-> NULL]

wrenNewSingleClass(vm, numFields, name, gc) ==
  rootedInit(construct(ALLOCATE(vm, gc), "class", NULL,
                       [superclass |-> NULL, numFields |-> numFields,
                        name |-> name, methods |-> NoMethods]))

\* wrenMethodBufferFill (DEFINE_BUFFER) on classObj->methods: append count
\* copies of data, growing the array 0 -> 16 -> * 2 as needed.
RECURSIVE GrownCapacity(_, _)
GrownCapacity(capacity, needed) ==
  IF capacity >= needed THEN capacity
  ELSE GrownCapacity(IF capacity = 0 THEN 16 ELSE capacity * 2, needed)

wrenMethodBufferFill(vm, classObj, data, count, gc) ==
  LET methods == vm.heap[classObj].methods
      grows == methods.capacity < methods.count + count
      v == IF grows THEN wrenReallocate(vm, gc) ELSE vm
  IN [v EXCEPT !.heap[classObj].methods =
        [capacity |-> GrownCapacity(methods.capacity, methods.count + count),
         count |-> methods.count + count,
         data |-> methods.data \o [i \in 1 .. count |-> data]]]

\* wrenBindMethod that fills the new slots with the method.
wrenBindMethod_FillsWithMethod(vm, classObj, symbol, method, gc) ==
  LET count == vm.heap[classObj].methods.count
      v == IF symbol >= count
           THEN wrenMethodBufferFill(vm, classObj, method,
                                     (symbol - count) + 1, gc)
           ELSE vm
  IN [v EXCEPT !.heap[classObj].methods.data[symbol + 1] = method]

wrenBindMethod(vm, classObj, symbol, method, gc) ==
  LET count == vm.heap[classObj].methods.count
      v == IF symbol >= count
           THEN wrenMethodBufferFill(vm, classObj, METHOD_NONE,
                                     (symbol - count) + 1, gc)
           ELSE vm
  IN [v EXCEPT !.heap[classObj].methods.data[symbol + 1] = method]

\* for (i = 0; i < superclass->methods.count; i++) wrenBindMethod(...)
RECURSIVE bindInherited(_, _, _, _, _)
bindInherited(vm, subclass, superclass, i, gc) ==
  IF i < vm.heap[superclass].methods.count
  THEN bindInherited(wrenBindMethod(vm, subclass, i,
                                    vm.heap[superclass].methods.data[i + 1], gc),
                     subclass, superclass, i + 1, gc)
  ELSE vm

\* wrenBindSuperclass that leaves numFields as it is.
wrenBindSuperclass_KeepsNumFields(vm, subclass, superclass, gc) ==
  bindInherited([vm EXCEPT !.heap[subclass].superclass = superclass],
                subclass, superclass, 0, gc)

wrenBindSuperclass(vm, subclass, superclass, gc) ==
  bindInherited([vm EXCEPT !.heap[subclass].superclass = superclass,
                           !.heap[subclass].numFields =
                              @ + vm.heap[superclass].numFields],
                subclass, superclass, 0, gc)

allocateString(vm, length, gc) ==
  construct(ALLOCATE(vm, gc), "string", vm.stringClass,
            [bytes |-> [i \in 1 .. length |-> 0], hash |-> <<0, 0>>])

\* memcpy into string->value, then hashString(string), on the string r.obj
\* that allocateString returned
fillString(r, bytes) ==
  [r EXCEPT !.vm.heap[r.obj].bytes = bytes,
            !.vm.heap[r.obj].hash = hashString(bytes)]

\* wrenNewString on the vm
vmNewString(vm, text, gc) ==
  fillString(allocateString(vm, Len(text), gc), text)

\* The bytes wrenStringFormat produces: '@' (64) in the format stands for
\* the next ObjString argument, any other character for itself.
RECURSIVE formatBytes(_, _, _)
formatBytes(vm, format, args) ==
  IF format = <<>> THEN <<>>
  ELSE IF Head(format) = 64
  THEN vm.heap[Head(args)].bytes \o formatBytes(vm, Tail(format), Tail(args))
  ELSE <<Head(format)>> \o formatBytes(vm, Tail(format), args)

\* the second pass of wrenStringFormat: the string of the given bytes
formatted(vm, bytes, gc) ==
  fillString(allocateString(vm, Len(bytes), gc), bytes)

wrenStringFormat(vm, format, args, gc) ==
  formatted(vm, formatBytes(vm, format, args), gc)

\* "@ metaclass"
MetaclassFormat == <<64, 32, 109, 101, 116, 97, 99, 108, 97, 115, 115>>

\* wrenNewClass in four parts, each taking what the call before it returned.
\* gc = 1: a collection runs at the allocation of the metaclass name; 2: of
\* the metaclass; 3: of the metaclass's method table; 4: of the class; 5: of
\* the class's method table.
\* c is the class: root it, set its metaclass, bind its superclass, release
\* the class and the metaclass.
bindClass(c, metaclass, superclass, gc) ==
  [vm |-> wrenPopRoot(wrenPopRoot(
            wrenBindSuperclass([wrenPushRoot(c.vm, c.obj) EXCEPT
                                  !.heap[c.obj].classObj = metaclass],
                               c.obj, superclass, gc = 5))),
   obj |-> c.obj]

\* m is the metaclass, bound and rooted: create the class.
newClassObj(m, superclass, numFields, name, gc) ==
  bindClass(wrenNewSingleClass(m.vm, numFields, name, gc = 4),
            m.obj, superclass, gc)

\* m is the metaclass: its class is Class, release its name, root it, and
\* bind Class as its superclass.
bindMetaclass(m, gc) ==
  [vm |-> wrenBindSuperclass(
            wrenPushRoot(wrenPopRoot([m.vm EXCEPT !.heap[m.obj].classObj =
                                                    m.vm.classClass]),
                         m.obj),
            m.obj, m.vm.classClass, gc = 3),
   obj |-> m.obj]

\* newMetaclass that does not root the metaclass name.
newMetaclass_NameUnrooted(f, gc) ==
  bindMetaclass(wrenNewSingleClass(f.vm, 0, f.obj, gc = 2), gc)

\* f is the metaclass name: root it and create the metaclass.
newMetaclass(f, gc) ==
  bindMetaclass(wrenNewSingleClass(wrenPushRoot(f.vm, f.obj), 0, f.obj, gc = 2),
                gc)

wrenNewClass(vm, superclass, numFields, name, gc) ==
  newClassObj(newMetaclass(wrenStringFormat(vm, MetaclassFormat, <<name>>,
                                            gc = 1),
                           gc),
              superclass, numFields, name, gc)

wrenNewClosure(vm, fn, gc) ==
  construct(ALLOCATE(vm, gc), "closure", vm.fnClass,
            [fn |-> fn,
             upvalues |-> [i \in 1 .. vm.heap[fn].numUpvalues |-> NULL]])

\* wrenResetFiber on the fiber r.obj
wrenResetFiber(r, fn) ==
  [r EXCEPT !.vm.heap[r.obj] =
     [stack |-> <<>>, numFrames |-> 1, openUpvalues |-> NULL,
      caller |-> NULL, error |-> NULL, callerIsTrying |-> FALSE,
      frames |-> <<fn>>] @@ @]

wrenNewFiber(vm, fn, gc) ==
  wrenResetFiber([construct(ALLOCATE(vm, gc), "fiber", vm.fiberClass,
                            [id |-> vm.nextFiberId])
                    EXCEPT !.vm.nextFiberId = @ + 1],
                 fn)

\* The constants array, the FnDebug and the name are allocated before the
\* ObjFn: a collection at any of the four allocations sees the same heap.
\* The function takes the bytecode and the source lines, bytecodeLength
\* entries each, from its caller; its name is a copy, of debugNameLength + 1
\* bytes.
wrenNewFunction(vm, module, constants, numUpvalues, bytecodeLength, debugSourcePath, debugNameLength, gc) ==
  construct(ALLOCATE(vm, gc), "fn", vm.fnClass,
            [constants |-> constants, module |-> module,
             numUpvalues |-> numUpvalues, numConstants |-> Len(constants),
             bytecodeLength |-> bytecodeLength,
             sourcePath |-> debugSourcePath,
             debugNameLength |-> debugNameLength])

wrenNewInstance(vm, classObj, gc) ==
  construct(ALLOCATE(vm, gc), "instance", classObj,
            [fields |-> [i \in 1 .. vm.heap[classObj].numFields |-> NULL_VAL]])

\* wrenNewList on the vm: the element array, then the ObjList.
vmNewList(vm, numElements, contents, gc) ==
  construct(ALLOCATE(vm, gc), "list", vm.listClass,
            [elements |-> wrenNewList(numElements, contents)])

\* wrenNewMap on the vm
vmNewMap(vm, gc) ==
  construct(ALLOCATE(vm, gc), "map", vm.mapClass, [map |-> wrenNewMap])

\* wrenValueBufferInit
NoValues == [capacity |-> 0, count |-> 0, data |-> <<>>]

wrenNewModule(vm, name, gc) ==
  rootedInit(construct(ALLOCATE(vm, gc), "module", NULL,
                       [variableNames |-> <<>>, variables |-> NoValues,
                        name |-> name]))

wrenNewRange(vm, from, to, isInclusive, gc) ==
  construct(ALLOCATE(vm, gc), "range", vm.rangeClass,
            [from |-> from, to |-> to, isInclusive |-> isInclusive])

wrenNewUpvalue(vm, gc) ==
  construct(ALLOCATE(vm, gc), "upvalue", NULL,
            [closed |-> NULL_VAL, nextUpvalue |-> NULL])

(***************************************************************************)
(* List and map operations on objects of the heap: the operation of the    *)
(* section above on the object's buffer, with the collection its           *)
(* reallocation may run.                                                   *)
(***************************************************************************)
\* r is what the operation on the buffer returned and atRealloc the vm as a
\* collection run by the reallocation sees it: store the buffer in the
\* object, and take the root stack the operation left.
stored(r, atRealloc, obj, field, buffer, gc) ==
  [vm |-> [(IF r.gcPoint.reached THEN wrenReallocate(atRealloc, gc)
            ELSE atRealloc) EXCEPT
             !.heap[obj][field] = buffer,
             !.stack = r.rs.stack, !.trace = r.rs.trace],
   value |-> r.value]

\* wrenPushRoot(vm, AS_OBJ(value)) if value is an object
rootValue(vm, value) ==
  IF IS_OBJ(value) THEN wrenPushRoot(vm, AS_OBJ(value).ptr) ELSE vm

insertedIn(vm, list, value, gc, r) ==
  stored(r @@ [value |-> value], rootValue(vm, value), list, "elements",
         r.list, gc).vm

vmListInsert(vm, list, value, index, gc) ==
  insertedIn(vm, list, value, gc,
             wrenListInsert(vm.heap[list].elements, vm, value, index))

removedFrom(vm, list, index, gc, elements, r) ==
  stored(r,
         [rootValue(vm, elements.data[index]) EXCEPT
            !.heap[list].elements.data =
               listShiftUp(elements.data, index, elements.count)],
         list, "elements", r.list, gc)

vmListRemoveAt(vm, list, index, gc) ==
  removedFrom(vm, list, index, gc, vm.heap[list].elements,
              wrenListRemoveAt(vm.heap[list].elements, vm, index))

vmMapSet(vm, map, key, value, gc) ==
  LET m == vm.heap[map].map
      r == wrenMapSet(m, key, value)
  IN stored([gcPoint |-> [reached |-> r.map.capacity # m.capacity],
             rs |-> vm, value |-> value],
            vm, map, "map", r.map, gc).vm

removedKey(vm, map, gc, m, entry, r) ==
  stored([gcPoint |-> [reached |-> r.map.capacity # m.capacity
                                     /\ r.map.capacity # 0],
          rs |-> r.rs, value |-> r.value],
         IF entry.found
         THEN [rootValue(vm, r.value) EXCEPT
                 !.heap[map].map.entries[entry.index] = TombstoneEntry,
                 !.heap[map].map.count = @ - 1]
         ELSE rootValue(vm, r.value),
         map, "map", r.map, gc)

vmMapRemoveKey(vm, map, key, gc) ==
  removedKey(vm, map, gc, vm.heap[map].map, findEntry(vm.heap[map].map, key),
             wrenMapRemoveKey(vm.heap[map].map, vm, key))

(***************************************************************************)
(* wrenStringFind.  An index is a uint32_t; the function returns           *)
(* [returns |-> TRUE, value |-> the uint32_t] or does not return.          *)
(***************************************************************************)
UINT8_MAX == 255
ToU32(n) == <<n \div W16, n % W16>>
\* UINT32_MAX
NOT_FOUND == <<W16 - 1, W16 - 1>>
DoesNotReturn == [returns |-> FALSE, value |-> NOT_FOUND]

\* uint32_t shift[UINT8_MAX]: the entries 0 .. UINT8_MAX - 1, each set to
\* needle->length.
shiftDefault(needle) == [c \in 0 .. UINT8_MAX - 1 |-> Len(needle)]

\* for (index = 0; index < needleEnd; index++) shift[(uint8_t)c] = needleEnd
\* - index.  The store for the byte UINT8_MAX is outside the array: it leaves
\* the array as it is.
RECURSIVE shiftFrom(_, _, _)
shiftFrom(needle, shift, index) ==
  IF index < Len(needle) - 1
  THEN shiftFrom(needle,
                 IF needle[index + 1] \in DOMAIN shift
                 THEN [shift EXCEPT ![needle[index + 1]] =
                                      (Len(needle) - 1) - index]
                 ELSE shift,
                 index + 1)
  ELSE shift

\* shift[(uint8_t)c]: for the byte UINT8_MAX the read is outside the array
\* and yields beyond, whatever the memory behind the array holds.
shiftAt(shift, c, beyond) == IF c \in DOMAIN shift THEN shift[c] ELSE beyond

\* for (index = 0; index <= range; ) { ... index += shift[(uint8_t)c]; }
RECURSIVE findFrom(_, _, _, _, _)
findFrom(haystack, needle, shift, index, beyond) ==
  LET needleEnd == Len(needle) - 1
      c == haystack[index + needleEnd + 1]
  IN IF index > Len(haystack) - Len(needle) THEN [returns |-> TRUE,
                                                  value |-> NOT_FOUND]
     ELSE IF needle[needleEnd + 1] = c
             /\ SubSeq(haystack, index + 1, index + needleEnd)
                  = SubSeq(needle, 1, needleEnd)
     THEN [returns |-> TRUE, value |-> ToU32(index)]
     ELSE IF shiftAt(shift, c, beyond) = 0 THEN DoesNotReturn
     ELSE findFrom(haystack, needle, shift,
                   index + shiftAt(shift, c, beyond), beyond)

wrenStringFind(haystack, needle, beyond) ==
  IF Len(needle) = 0 THEN [returns |-> TRUE, value |-> ToU32(0)]
  ELSE IF Len(needle) > Len(haystack) THEN [returns |-> TRUE,
                                            value |-> NOT_FOUND]
  ELSE findFrom(haystack, needle, shiftFrom(needle, shiftDefault(needle), 0),
                0, beyond)

(***************************************************************************)
(* UTF-8 (wren_utils.c).  x & mask and x >> n are written with % and \div. *)
(***************************************************************************)
wrenUtf8NumBytes(value) ==
  IF value <= 127 THEN 1            \* 0x7f
  ELSE IF value <= 2047 THEN 2      \* 0x7ff
  ELSE IF value <= 65535 THEN 3     \* 0xffff
  ELSE IF value <= 1114111 THEN 4   \* 0x10ffff
  ELSE 0

\* wrenUtf8Encode whose four byte sequence takes (value & 0xf000) >> 12 for
\* its second byte.
wrenUtf8Encode_NarrowMask(value) ==
  IF value <= 127 THEN <<value % 128>>
  ELSE IF value <= 2047
  THEN <<192 + ((value \div 64) % 32), 128 + (value % 64)>>
  ELSE IF value <= 65535
  THEN <<224 + ((value \div 4096) % 16), 128 + ((value \div 64) % 64),
         128 + (value % 64)>>
  ELSE IF value <= 1114111
  THEN <<240 + ((value \div 262144) % 8), 128 + ((value \div 4096) % 16),
         128 + ((value \div 64) % 64), 128 + (value % 64)>>
  ELSE <<>>

\* The bytes wrenUtf8Encode writes at bytes[0], bytes[1], ...; none for a
\* value above 0x10ffff (ASSERT).
wrenUtf8Encode(value) ==
  IF value <= 127 THEN <<value % 128>>
  ELSE IF value <= 2047
  THEN <<192 + ((value \div 64) % 32), 128 + (value % 64)>>
  ELSE IF value <= 65535
  THEN <<224 + ((value \div 4096) % 16), 128 + ((value \div 64) % 64),
         128 + (value % 64)>>
  ELSE IF value <= 1114111
  THEN <<240 + ((value \div 262144) % 8), 128 + ((value \div 4096) % 64),
         128 + ((value \div 64) % 64), 128 + (value % 64)>>
  ELSE <<>>

\* while (remainingBytes > 0) { bytes++; ... }: i is the index of the byte
\* read last.  The result is the value returned and the number of bytes of
\* the buffer the call has read.
RECURSIVE decodeRest(_, _, _, _)
decodeRest(bytes, value, remainingBytes, i) ==
  IF remainingBytes = 0 THEN [value |-> value, read |-> i + 1]
  ELSE IF bytes[i + 2] - (bytes[i + 2] % 64) # 128
  THEN [value |-> -1, read |-> i + 2]
  ELSE decodeRest(bytes, (value * 64) + (bytes[i + 2] % 64),
                  remainingBytes - 1, i + 1)

\* if (remainingBytes > length - 1) return -1; length - 1 is a uint32_t:
\* UINT32_MAX for length 0.
decodeChecked(bytes, length, value, remainingBytes) ==
  IF length # 0 /\ remainingBytes > length - 1
  THEN [value |-> -1, read |-> 1]
  ELSE decodeRest(bytes, value, remainingBytes, 0)

\* wrenUtf8Decode without the test of remainingBytes against length.
wrenUtf8Decode_NoLengthTest(bytes, length) ==
  LET b == bytes[1]
  IN IF b <= 127 THEN [value |-> b, read |-> 1]
     ELSE IF b - (b % 32) = 192 THEN decodeRest(bytes, b % 32, 1, 0)
     ELSE IF b - (b % 16) = 224 THEN decodeRest(bytes, b % 16, 2, 0)
     ELSE IF b - (b % 8) = 240 THEN decodeRest(bytes, b % 8, 3, 0)
     ELSE [value |-> -1, read |-> 1]

\* bytes is the memory at the pointer passed, from bytes[1] on.
wrenUtf8Decode(bytes, length) ==
  LET b == bytes[1]
  IN IF b <= 127 THEN [value |-> b, read |-> 1]
     ELSE IF b - (b % 32) = 192 THEN decodeChecked(bytes, length, b % 32, 1)
     ELSE IF b - (b % 16) = 224 THEN decodeChecked(bytes, length, b % 16, 2)
     ELSE IF b - (b % 8) = 240 THEN decodeChecked(bytes, length, b % 8, 3)
     ELSE [value |-> -1, read |-> 1]

(***************************************************************************)
(* The symbol table (wren_utils.c): the sequence data[0 .. count - 1] of   *)
(* its Strings.  A function returns the table after the call and its int.  *)
(***************************************************************************)
\* wrenSymbolTableInit: wrenStringBufferInit
wrenSymbolTableInit == <<>>

\* memcmp(buffer, name, length) == 0
memcmpEqual(buffer, name, length) ==
  \A k \in 1 .. length : k <= Len(buffer) /\ buffer[k] = name[k]

\* wrenSymbolTableFind that compares the bytes only.
RECURSIVE wrenSymbolTableFind_IgnoresLength(_, _, _)
wrenSymbolTableFind_IgnoresLength(table, name, i) ==
  IF i >= Len(table) THEN -1
  ELSE IF memcmpEqual(table[i + 1].buffer, name, Len(name)) THEN i
  ELSE wrenSymbolTableFind_IgnoresLength(table, name, i + 1)

\* wrenSymbolTableFind: the loop from index i on
RECURSIVE wrenSymbolTableFind(_, _, _)
wrenSymbolTableFind(table, name, i) ==
  IF i >= Len(table) THEN -1
  ELSE IF table[i + 1].length = Len(name)
          /\ memcmpEqual(table[i + 1].buffer, name, Len(name)) THEN i
  ELSE wrenSymbolTableFind(table, name, i + 1)

\* The copy of the name, ended by '\0', is written at the end:
\* wrenStringBufferWrite; then return symbols->count - 1.
wrenSymbolTableAdd(table, name) ==
  [table |-> Append(table, [buffer |-> name \o <<0>>, length |-> Len(name)]),
   index |-> (Len(table) + 1) - 1]

\* wrenSymbolTableEnsure, existing being what wrenSymbolTableFind returned
ensureExisting(table, name, existing) ==
  IF existing # -1 THEN [table |-> table, index |-> existing]
  ELSE wrenSymbolTableAdd(table, name)

wrenSymbolTableEnsure(table, name) ==
  ensureExisting(table, name, wrenSymbolTableFind(table, name, 0))

(***************************************************************************)
(* State.                                                                  *)
(***************************************************************************)
VARIABLES
  map,     \* the ObjMap under test
  list,    \* the ObjList under test (its elements buffer)
  live,    \* history: per key of MapKeys, how many entries set with it are
           \* neither removed nor cleared
  vm,      \* the heap and the VM's pointers into it
  roots,   \* vm->tempRoots[0 .. numTempRoots-1]
  last,    \* the last operation: its name, arguments, result and root trace
  hung,    \* TRUE once an operation has entered a loop it never leaves
  call,    \* the last call of a function on strings or bytes: its name,
           \* arguments and result
  symbols  \* the SymbolTable under test

vars == <<map, live, list, vm, roots, last, hung, call, symbols>>

(***************************************************************************)
(* Inputs of the map operations.  +0 and -0, which are equal keys, are set *)
(* and removed freely.  The keys after them (FALSE, NaN, then NumBallast   *)
(* one-byte strings) are stacked: added in order with the first value,     *)
(* removed last-added first, and both only while the entry array holds no  *)
(* tombstone.  +0, -0, FALSE and NaN all have home slot 0.                 *)
(***************************************************************************)
FreeKeys == <<NUM_VAL(PosZero), NUM_VAL(NegZero)>>
NumFree == Len(FreeKeys)
BallastKey(i) == OBJ_VAL(wrenNewString(i, <<97 + i>>))
MapKeys == FreeKeys \o <<FALSE_VAL, NUM_VAL(NaN)>>
                    \o [i \in 1 .. NumBallast |-> BallastKey(i)]
KeyIds == 1 .. Len(MapKeys)
MapVals == <<NUM_VAL(One), OBJ_VAL(wrenNewString(NumBallast + 1, <<118>>))>>

NoList == [capacity |-> 0, count |-> 0, data |-> <<>>]
NoPrev == [op |-> "none", value |-> UNDEFINED_VAL, index |-> 0, before |-> NoList]
NoCall == [fn |-> "none"]
NoLast == [op |-> "none", key |-> UNDEFINED_VAL, value |-> UNDEFINED_VAL,
           ret |-> UNDEFINED_VAL, returns |-> TRUE, trace |-> <<>>,
           index |-> 0, before |-> NoList, gcPoint |-> NoGcPoint,
           prev |-> NoPrev, obj |-> NULL, entry |-> <<>>, gcs |-> <<>>]

\* the keys with a live entry that are wrenValuesEqual to key k
LiveEqual(k) ==
  {j \in KeyIds : live[j] > 0 /\ wrenValuesEqual(MapKeys[j], MapKeys[k])}

HasTombstone(m) ==
  \E i \in DOMAIN m.entries :
    IS_UNDEFINED(m.entries[i].key) /\ ~IS_FALSE(m.entries[i].value)

SetAllowed(k, value) ==
  IF k <= NumFree THEN TRUE
  ELSE /\ value = MapVals[1]
       /\ ~HasTombstone(map)
       /\ (IF k = NumFree + 1 THEN TRUE ELSE live[k - 1] > 0)
       /\ IF wrenValuesEqual(MapKeys[k], MapKeys[k])
          THEN live[k] = 0 ELSE live[k] < MaxNaNEntries

RemoveAllowed(k) ==
  IF k <= NumFree THEN TRUE
  ELSE /\ ~HasTombstone(map)
       /\ live[k] > 0
       /\ (IF k = Len(MapKeys) THEN TRUE ELSE live[k + 1] = 0)

\* wrenNewVM before the core library is loaded: no object, no root.
NewVM ==
  [heap |-> [a \in Addrs |-> FreeCell], first |-> NULL,
   classClass |-> NULL, fiberClass |-> NULL, fnClass |-> NULL,
   listClass |-> NULL, mapClass |-> NULL, rangeClass |-> NULL,
   stringClass |-> NULL, nextFiberId |-> 1, fiber |-> NULL, modules |-> {}]

\* The state after construction: wrenNewVM, wrenNewMap, wrenNewList(0).
Init ==
  /\ map = wrenNewMap
  /\ live = [k \in KeyIds |-> 0]
  /\ roots = <<>>
  /\ last = NoLast
  /\ hung = FALSE
  /\ call = NoCall
  /\ symbols = wrenSymbolTableInit
  /\ list = wrenNewList(0, <<>>)
  /\ vm = NewVM

MapSet(k, value) ==
  /\ ~hung
  /\ SetAllowed(k, value)
  /\ LET r == wrenMapSet(map, MapKeys[k], value)
     IN /\ map' = r.map
        /\ hung' = ~r.returns
        /\ live' = IF r.returns /\ LiveEqual(k) = {}
                   THEN [live EXCEPT ![k] = @ + 1] ELSE live
        /\ last' = [NoLast EXCEPT !.op = "set", !.key = MapKeys[k],
                                  !.value = value, !.returns = r.returns]
  /\ UNCHANGED <<roots, list, vm, call, symbols>>

\* wrenMapGet writes nothing; its result is wrenMapGet(map, key).
MapGet(k) ==
  /\ ~hung
  /\ hung' = ~wrenMapGet(map, MapKeys[k]).returns
  /\ UNCHANGED <<map, live, roots, last, list, vm, call, symbols>>

MapRemoveKey(k) ==
  /\ ~hung
  /\ RemoveAllowed(k)
  /\ LET r == wrenMapRemoveKey(map, [stack |-> roots, trace |-> <<>>], MapKeys[k])
         gone == IF LiveEqual(k) = {} THEN k
                 ELSE CHOOSE j \in LiveEqual(k) : TRUE
     IN /\ map' = r.map
        /\ roots' = r.rs.stack
        /\ hung' = ~r.returns
        /\ live' = IF r.returns /\ LiveEqual(k) # {}
                   THEN [live EXCEPT ![gone] = @ - 1] ELSE live
        /\ last' = [NoLast EXCEPT !.op = "remove", !.key = MapKeys[k],
                                  !.ret = r.value, !.returns = r.returns,
                                  !.trace = r.rs.trace]
  /\ UNCHANGED <<list, vm, call, symbols>>

MapClear ==
  /\ ~hung
  /\ map' = wrenMapClear(map)
  /\ live' = [k \in KeyIds |-> 0]
  /\ last' = [NoLast EXCEPT !.op = "clear"]
  /\ UNCHANGED <<roots, hung, list, vm, call, symbols>>

NextMap ==
  \/ \E k \in KeyIds, i \in DOMAIN MapVals : MapSet(k, MapVals[i])
  \/ \E k \in KeyIds : MapGet(k)
  \/ \E k \in KeyIds : MapRemoveKey(k)
  \/ MapClear

SpecMap == Init /\ [][NextMap]_vars

(***************************************************************************)
(* List operations.  Values stored: a number and a string object.          *)
(***************************************************************************)
\* largest numElements given to wrenNewList
MaxNewList == 3
\* wrenListInsert is not called on a list of this many elements
MaxListCount == 4
ListVals == <<NUM_VAL(One), OBJ_VAL(wrenNewString(NumBallast + 1, <<118>>))>>

ListNew(numElements, contents) ==
  /\ list' = wrenNewList(numElements, contents)
  /\ last' = [NoLast EXCEPT !.op = "newList", !.index = numElements]
  /\ UNCHANGED <<map, live, vm, roots, hung, call, symbols>>

ListInsert(value, index) ==
  /\ list.count < MaxListCount
  /\ index <= list.count
  /\ LET r == wrenListInsert(list, [stack |-> roots, trace |-> <<>>], value, index)
     IN /\ list' = r.list
        /\ roots' = r.rs.stack
        /\ last' = [NoLast EXCEPT
                      !.op = "listInsert", !.value = value, !.index = index,
                      !.before = list, !.gcPoint = r.gcPoint,
                      !.trace = r.rs.trace,
                      !.prev = [op |-> last.op, value |-> last.value,
                                index |-> last.index, before |-> last.before]]
  /\ UNCHANGED <<map, live, vm, hung, call, symbols>>

ListRemoveAt(index) ==
  /\ index < list.count
  /\ LET r == wrenListRemoveAt(list, [stack |-> roots, trace |-> <<>>], index)
     IN /\ list' = r.list
        /\ roots' = r.rs.stack
        /\ last' = [NoLast EXCEPT
                      !.op = "listRemoveAt", !.ret = r.value, !.index = index,
                      !.before = list, !.gcPoint = r.gcPoint,
                      !.trace = r.rs.trace,
                      !.prev = [op |-> last.op, value |-> last.value,
                                index |-> last.index, before |-> last.before]]
  /\ UNCHANGED <<map, live, vm, hung, call, symbols>>

NextList ==
  \/ \E n \in 0 .. MaxNewList :
       \E contents \in [0 .. n - 1 -> {ListVals[i] : i \in DOMAIN ListVals}] :
         ListNew(n, contents)
  \/ \E i \in DOMAIN ListVals, index \in 0 .. MaxListCount :
       ListInsert(ListVals[i], index)
  \/ \E index \in 0 .. MaxListCount : ListRemoveAt(index)

SpecList == Init /\ [][NextList]_vars

(***************************************************************************)
(* Operations on the heap.  The caller of an operation passes objects it   *)
(* holds a pointer to: the newest object, the objects it has rooted, and   *)
(* the root class; when a collection runs inside the operation, only those *)
(* of them that the roots keep alive.                                      *)
(***************************************************************************)
\* how many strings / classes / objects of each other kind the heap holds
MaxStrings == 3
MaxClasses == 3
MaxOfKind == 1
\* how many strings the heap holds when an object of another kind is created
MaxStringsBeside == 3
\* how many objects the heap holds
MaxHeapObjs == 7
\* how many roots the caller itself pushes
MaxCallerRoots == 1
\* how many fibers are ever created
MaxFiberId == 1

Enter == vm @@ [stack |-> roots, trace |-> <<>>, gcs |-> <<>>, visits |-> <<>>]

\* last records the operation if it uses the root stack or collects.
Leave(op, r, obj) ==
  /\ vm' = [f \in DOMAIN vm |-> r[f]]
  /\ roots' = r.stack
  /\ last' = IF r.trace = <<>> /\ r.gcs = <<>> THEN NoLast
             ELSE [NoLast EXCEPT !.op = op, !.obj = obj, !.entry = roots,
                                 !.trace = r.trace, !.gcs = r.gcs]
  /\ UNCHANGED <<map, live, list, hung, call, symbols>>

\* The operation is a constructor, and r what it returned.
LeaveNew(op, r) == Leave(op, r.vm, r.obj)

Kept == Marked(markRoots(Enter))
CanPass(objs, gc) ==
  IF gc THEN objs \subseteq Kept ELSE objs \subseteq Live(vm)
Room(n) == Cardinality(Live(vm)) + n <= MaxHeapObjs
\* Objects are created in the order of their kinds in Kinds: an object is
\* created only while the heap holds no object of a later kind.
Kinds == <<"string", "class", "module", "fn", "closure", "upvalue", "fiber",
           "instance", "list", "map", "range">>
Rank(type) == CHOOSE i \in DOMAIN Kinds : Kinds[i] = type
InOrder(type) == \A a \in Live(vm) : Rank(vm.heap[a].type) <= Rank(type)
Others == Live(vm) \ (OfType(vm, "string") \cup OfType(vm, "class"))
\* The kinds of object that live beside an object of kind type, strings and
\* classes apart.
Beside(type) ==
  IF type \in {"module", "fn"}
  THEN {"module", "fn", "closure", "upvalue", "fiber"}
  ELSE IF type \in {"closure", "upvalue"}
  THEN {"module", "fn", "closure", "upvalue"}
  ELSE IF type = "fiber" THEN {"module", "fn", "fiber"}
  ELSE {type}
Fewer(type) ==
  /\ InOrder(type)
  /\ IF type = "string" THEN Cardinality(OfType(vm, type)) < MaxStrings
     ELSE IF type = "class" THEN Cardinality(OfType(vm, type)) < MaxClasses
     ELSE /\ Cardinality(OfType(vm, type)) < MaxOfKind
          /\ \A a \in Others : vm.heap[a].type \in Beside(type)
          /\ Cardinality(OfType(vm, "string")) <= MaxStringsBeside
Held == ({vm.first, vm.classClass} \cup {roots[i] : i \in DOMAIN roots})
          \cap Live(vm)
HeldOf(type) == Held \cap OfType(vm, type)
\* the names of the classes the caller holds
HeldNames == {vm.heap[c].name : c \in HeldOf("class")} \ {NULL}
\* The newest object of a kind: the first of that kind on the list of all
\* objects.
RECURSIVE newestFrom(_, _)
newestFrom(obj, type) ==
  IF obj = NULL THEN NULL
  ELSE IF vm.heap[obj].type = type THEN obj
  ELSE newestFrom(vm.heap[obj].next, type)
Newest(type) == {newestFrom(vm.first, type)} \ {NULL}
NewestOrNull(type) == {newestFrom(vm.first, type)}
\* The value stored in objects is the newest string or, when the heap holds
\* no string, the newest object; the keys of maps are a number and the newest
\* string.
HeapVals ==
  {ObjVal(vm, a) : a \in IF Newest("string") # {} THEN Newest("string")
                         ELSE {vm.first} \cap Live(vm)}
HeapKeys == {NUM_VAL(One)} \cup {ObjVal(vm, a) : a \in Newest("string")}
ValObjs(values) == {AS_OBJ(v).ptr : v \in {w \in values : IS_OBJ(w)}}
ClassLoaded == vm.classClass # NULL /\ ~IsFree(vm, vm.classClass)

\* The core library defines the root class, named "C" here: Class is its own
\* class.
classNamed(n) == wrenNewSingleClass(n.vm, 0, n.obj, FALSE)
classOfItself(c) ==
  [c EXCEPT !.vm.heap[c.obj].classObj = c.obj, !.vm.classClass = c.obj]

DefineClass ==
  /\ ~ClassLoaded
  /\ Room(2) /\ Fewer("string") /\ Fewer("class")
  /\ LeaveNew("defineClass",
              classOfItself(classNamed(vmNewString(Enter, <<67>>, FALSE))))

NewString(text, gc) ==
  /\ Room(1) /\ Fewer("string")
  /\ LeaveNew("newString",
              vmNewString(Enter, text, gc))

NewClass(superclass, numFields, name, gc) ==
  /\ ClassLoaded
  /\ Room(3) /\ InOrder("class")
  /\ Cardinality(OfType(vm, "class")) + 2 <= MaxClasses
  /\ Cardinality(OfType(vm, "string")) + 1 <= MaxStrings
  /\ CanPass({superclass, name, vm.classClass}, gc # 0)
  /\ LeaveNew("newClass",
              wrenNewClass(Enter, superclass, numFields, name, gc))

BindMethod(classObj, symbol, method, gc) ==
  /\ vm.heap[classObj].methods.count <= symbol
  /\ CanPass({classObj} \cup ({method.fn} \ {NULL}), gc)
  /\ Leave("bindMethod", wrenBindMethod(Enter, classObj, symbol, method, gc), NULL)

NewInstance(classObj, gc) ==
  /\ Room(1) /\ Fewer("instance")
  /\ CanPass({classObj}, gc)
  /\ LeaveNew("newInstance",
              wrenNewInstance(Enter, classObj, gc))

\* The interpreter stores a value in a field of an instance.
StoreField(instance, i, value) ==
  /\ i <= Len(vm.heap[instance].fields)
  /\ vm.heap[instance].fields[i] # value
  /\ Leave("storeField", [Enter EXCEPT !.heap[instance].fields[i] = value], NULL)

NewList(numElements, contents, gc) ==
  /\ Room(1) /\ Fewer("list")
  /\ CanPass(ValObjs({contents[i] : i \in DOMAIN contents}), gc)
  /\ LeaveNew("newList",
              vmNewList(Enter, numElements, contents, gc))

HeapListInsert(l, value, index, gc) ==
  /\ vm.heap[l].elements.count < MaxOfKind
  /\ index <= vm.heap[l].elements.count
  /\ CanPass({l} \cup ValObjs({value}), gc)
  /\ Leave("listInsert", vmListInsert(Enter, l, value, index, gc), NULL)

HeapListRemoveAt(l, index, gc) ==
  /\ index < vm.heap[l].elements.count
  /\ CanPass({l}, gc)
  /\ Leave("listRemoveAt", vmListRemoveAt(Enter, l, index, gc).vm, NULL)

NewMap(gc) ==
  /\ Room(1) /\ Fewer("map")
  /\ LeaveNew("newMap",
              vmNewMap(Enter, gc))

HeapMapSet(m, key, value, gc) ==
  /\ vm.heap[m].map.count < MaxOfKind
  /\ CanPass({m} \cup ValObjs({key, value}), gc)
  /\ Leave("mapSet", vmMapSet(Enter, m, key, value, gc), NULL)

HeapMapRemoveKey(m, key, gc) ==
  /\ CanPass({m}, gc)
  /\ findEntry(vm.heap[m].map, key).found
  /\ Leave("mapRemoveKey", vmMapRemoveKey(Enter, m, key, gc).vm, NULL)

\* The module loader creates a module and enters it in the module table.
entered(r) == [r EXCEPT !.vm.modules = @ \cup {r.obj}]

LoadModule(name, gc) ==
  /\ Room(1) /\ Fewer("module")
  /\ CanPass({name} \ {NULL}, gc)
  /\ LeaveNew("newModule", entered(wrenNewModule(Enter, name, gc)))

\* The compiler defines a variable of the module it has just created:
\* wrenValueBufferWrite.
DefineVariable(module, value, gc) ==
  /\ vm.heap[module].variables.count < MaxOfKind
  /\ module = vm.first
  /\ CanPass({module} \cup ValObjs({value}), gc)
  /\ LET w == wrenValueBufferWrite(vm.heap[module].variables, value)
         v == IF w.gcPoint.reached THEN wrenReallocate(Enter, gc) ELSE Enter
     IN Leave("defineVariable", [v EXCEPT !.heap[module].variables = w.buffer],
              NULL)

NewFunction(module, constants, numUpvalues, bytecodeLength, debugSourcePath, debugNameLength, gc) ==
  /\ Room(1) /\ Fewer("fn")
  /\ CanPass(({module, debugSourcePath} \ {NULL})
               \cup ValObjs({constants[i] : i \in DOMAIN constants}), gc)
  /\ LeaveNew("newFunction",
              wrenNewFunction(Enter, module, constants, numUpvalues,
                              bytecodeLength, debugSourcePath,
                              debugNameLength, gc))

NewClosure(fn, gc) ==
  /\ Room(1) /\ Fewer("closure")
  /\ CanPass({fn}, gc)
  /\ LeaveNew("newClosure",
              wrenNewClosure(Enter, fn, gc))

NewUpvalue(gc) ==
  /\ Room(1) /\ Fewer("upvalue")
  /\ LeaveNew("newUpvalue",
              wrenNewUpvalue(Enter, gc))

\* The interpreter captures an upvalue in a closure, and closes an upvalue
\* over a value.
CaptureUpvalue(closure, i, upvalue) ==
  /\ i <= Len(vm.heap[closure].upvalues)
  /\ vm.heap[closure].upvalues[i] # upvalue
  /\ Leave("captureUpvalue",
           [Enter EXCEPT !.heap[closure].upvalues[i] = upvalue], NULL)

CloseUpvalue(upvalue, value) ==
  /\ vm.heap[upvalue].closed # value
  /\ Leave("closeUpvalue", [Enter EXCEPT !.heap[upvalue].closed = value], NULL)

\* A new fiber becomes the current fiber.
resumed(r) == [r EXCEPT !.vm.fiber = r.obj]

NewFiber(fn, gc) ==
  /\ Room(1) /\ Fewer("fiber")
  /\ vm.nextFiberId <= MaxFiberId
  /\ CanPass({fn}, gc)
  /\ LeaveNew("newFiber", resumed(wrenNewFiber(Enter, fn, gc)))

\* The current fiber ends.
EndFiber ==
  /\ vm.fiber # NULL
  /\ Leave("endFiber", [Enter EXCEPT !.fiber = NULL], NULL)

NewRange(from, to, isInclusive, gc) ==
  /\ Room(1) /\ Fewer("range")
  /\ LeaveNew("newRange",
              wrenNewRange(Enter, from, to, isInclusive, gc))

\* The caller roots the object it has just created, and releases its last
\* root.
PushRoot(obj) ==
  /\ Len(roots) < MaxCallerRoots
  /\ \A i \in DOMAIN roots : roots[i] # obj
  /\ Leave("pushRoot", [wrenPushRoot(Enter, obj) EXCEPT !.trace = <<>>], NULL)

PopRoot ==
  /\ Len(roots) > 0
  /\ Leave("popRoot", [wrenPopRoot(Enter) EXCEPT !.trace = <<>>], NULL)

CollectGarbage ==
  Leave("collectGarbage", collectGarbage(Enter), NULL)

Texts == {<<97>>}
Methods(fns) == {[type |-> "primitive", fn |-> NULL]}
                  \cup {[type |-> "block", fn |-> f] : f \in fns}
Seqs1(S) == {<<>>} \cup {<<x>> : x \in S}

\* A collection run by the first allocation of an operation, before the
\* operation has changed anything, is the step CollectGarbage followed by
\* the operation without it: gc is chosen where the two differ.
NextHeap ==
  \/ DefineClass
  \/ \E text \in Texts : NewString(text, FALSE)
  \/ \E superclass \in HeldOf("class"), name \in HeldOf("string") \cup HeldNames,
        gc \in {0, 2, 3, 4, 5} : NewClass(superclass, 1, name, gc)
  \/ \E classObj \in HeldOf("class"), method \in Methods(HeldOf("fn")) :
       BindMethod(classObj, 0, method, FALSE)
  \/ \E classObj \in HeldOf("class") : NewInstance(classObj, FALSE)
  \/ \E instance \in OfType(vm, "instance"), value \in HeapVals :
       StoreField(instance, 1, value)
  \/ NewList(0, <<>>, FALSE)
  \/ \E l \in OfType(vm, "list"), value \in HeapVals, index \in 0 .. 1,
        gc \in BOOLEAN : HeapListInsert(l, value, index, gc)
  \/ \E l \in OfType(vm, "list"), index \in 0 .. 1, gc \in BOOLEAN :
       HeapListRemoveAt(l, index, gc)
  \/ NewMap(FALSE)
  \/ \E m \in OfType(vm, "map"), key \in HeapKeys, value \in HeapVals :
       HeapMapSet(m, key, value, FALSE)
  \/ \E m \in OfType(vm, "map"), key \in HeapKeys :
       HeapMapRemoveKey(m, key, FALSE)
  \/ \E name \in NewestOrNull("string") : LoadModule(name, FALSE)
  \/ \E module \in OfType(vm, "module"), value \in HeapVals :
       DefineVariable(module, value, FALSE)
  \/ \E module \in OfType(vm, "module"), constants \in Seqs1(HeapVals),
        numUpvalues \in 1 .. 1, debugSourcePath \in NewestOrNull("string") :
       NewFunction(module, constants, numUpvalues, 1, debugSourcePath, 1, FALSE)
  \/ \E fn \in HeldOf("fn") : NewClosure(fn, FALSE)
  \/ NewUpvalue(FALSE)
  \/ \E closure \in OfType(vm, "closure"), upvalue \in HeldOf("upvalue") :
       CaptureUpvalue(closure, 1, upvalue)
  \/ \E upvalue \in OfType(vm, "upvalue"), value \in HeapVals :
       CloseUpvalue(upvalue, value)
  \/ \E fn \in HeldOf("fn") \cup HeldOf("closure") : NewFiber(fn, FALSE)
  \/ EndFiber
  \/ NewRange(One, Two, TRUE, FALSE)
  \/ \E obj \in {vm.first} \cap Live(vm) : PushRoot(obj)
  \/ PopRoot
  \/ CollectGarbage

SpecHeap == Init /\ [][NextHeap]_vars

(***************************************************************************)
(* Classes: the core library defines Class, then classes are created with  *)
(* wrenNewClass and methods bound to the newest class with wrenBindMethod. *)
(* No collection runs.                                                     *)
(***************************************************************************)
\* the largest number of fields a class declares
MaxNumFields == 2
\* the largest method symbol bound
MaxSymbol == 1
\* the methods bound: a primitive and a foreign method
BoundMethods == {[type |-> "primitive", fn |-> NULL],
                 [type |-> "foreign", fn |-> NULL]}

ClassNew(superclass, numFields, name) ==
  /\ ClassLoaded
  /\ Cardinality(FreeAddrs(vm)) >= 3
  /\ LeaveNew("newClass", wrenNewClass(Enter, superclass, numFields, name, 0))

ClassBind(classObj, symbol, method) ==
  Leave("bindMethod", wrenBindMethod(Enter, classObj, symbol, method, FALSE),
        NULL)

NextClass ==
  \/ DefineClass
  \/ \E superclass \in OfType(vm, "class"), numFields \in 0 .. MaxNumFields,
        name \in Newest("string") : ClassNew(superclass, numFields, name)
  \/ \E classObj \in {vm.first} \cap OfType(vm, "class"),
        symbol \in 0 .. MaxSymbol, method \in BoundMethods :
       ClassBind(classObj, symbol, method)

SpecClass == Init /\ [][NextClass]_vars

(***************************************************************************)
(* wrenStringFind on the strings of at most MaxHaystack and MaxNeedle      *)
(* bytes among FindBytes, with any word of 0 .. MaxBeyond behind the shift *)
(* table.  Each behaviour is one call.                                     *)
(***************************************************************************)
MaxHaystack == 4
MaxNeedle == 3
MaxBeyond == 4
FindBytes == {0, 97, 255}
SeqsUpTo(S, n) == UNION {[1 .. k -> S] : k \in 0 .. n}

StringFind(haystack, needle, beyond) ==
  /\ call = NoCall
  /\ call' = [fn |-> "wrenStringFind", haystack |-> haystack,
              needle |-> needle,
              result |-> wrenStringFind(haystack, needle, beyond)]
  /\ UNCHANGED <<map, live, list, vm, roots, last, hung, symbols>>

NextFind ==
  \E haystack \in SeqsUpTo(FindBytes, MaxHaystack),
     needle \in SeqsUpTo(FindBytes, MaxNeedle), beyond \in 0 .. MaxBeyond :
    StringFind(haystack, needle, beyond)

SpecFind == Init /\ [][NextFind]_vars

(***************************************************************************)
(* UTF-8: a code point is encoded and the bytes written are decoded, or a  *)
(* buffer of MaxUtf8Buffer bytes is decoded with a length of 1 to          *)
(* MaxUtf8Buffer.  Each behaviour is one call.                             *)
(***************************************************************************)
MaxUtf8Buffer == 4
\* The code points encoded: those up to 0x8ff, those around the surrogates
\* and around 0xffff and 0x10ffff, U+1F600, and every 0x1111th.
CodePoints ==
  (0 .. 2303) \cup (55280 .. 57360) \cup (65472 .. 65599) \cup {128512}
    \cup (1114048 .. 1114111) \cup {4369 * k : k \in 0 .. 255}
\* The first byte and the following bytes of the buffers decoded.
LeadBytes == {0, 127, 128, 191, 192, 223, 224, 239, 240, 247, 248, 255}
NextBytes == {127, 128, 191, 192}
Utf8Buffers ==
  {<<b>> \o rest : b \in LeadBytes,
                   rest \in [1 .. MaxUtf8Buffer - 1 -> NextBytes]}

Utf8EncodeDecode(value) ==
  /\ call = NoCall
  /\ call' = [fn |-> "wrenUtf8Encode", value |-> value,
              numBytes |-> wrenUtf8NumBytes(value),
              bytes |-> wrenUtf8Encode(value),
              decoded |-> wrenUtf8Decode(wrenUtf8Encode(value),
                                         wrenUtf8NumBytes(value))]
  /\ UNCHANGED <<map, live, list, vm, roots, last, hung, symbols>>

Utf8Decode(bytes, length) ==
  /\ call = NoCall
  /\ call' = [fn |-> "wrenUtf8Decode", bytes |-> bytes, length |-> length,
              result |-> wrenUtf8Decode(bytes, length)]
  /\ UNCHANGED <<map, live, list, vm, roots, last, hung, symbols>>

NextUtf8 ==
  \/ \E value \in CodePoints : Utf8EncodeDecode(value)
  \/ \E bytes \in Utf8Buffers, length \in 1 .. MaxUtf8Buffer :
       Utf8Decode(bytes, length)

SpecUtf8 == Init /\ [][NextUtf8]_vars

(***************************************************************************)
(* wrenNewString, twice on the same bytes: at most MaxHashLen bytes among  *)
(* HashBytes, in a build where char is signed or one where it is unsigned. *)
(* Each behaviour is one call.                                             *)
(***************************************************************************)
MaxHashLen == 3
HashBytes == {0, 97, 127, 128, 255}

NewStrings(bytes, charIsSigned) ==
  /\ call = NoCall
  /\ call' = [fn |-> "wrenNewString", bytes |-> bytes,
              charIsSigned |-> charIsSigned,
              first |-> wrenNewStringOn(1, bytes, charIsSigned),
              second |-> wrenNewStringOn(2, bytes, charIsSigned)]
  /\ UNCHANGED <<map, live, list, vm, roots, last, hung, symbols>>

NextHash ==
  \E bytes \in SeqsUpTo(HashBytes, MaxHashLen), charIsSigned \in BOOLEAN :
    NewStrings(bytes, charIsSigned)

SpecHash == Init /\ [][NextHash]_vars

(***************************************************************************)
(* The symbol table under wrenSymbolTableAdd and wrenSymbolTableEnsure of  *)
(* the names of SymbolNames, up to MaxSymbols symbols.  call records the   *)
(* call, the table before it and whether every call so far was an ensure.  *)
(***************************************************************************)
MaxSymbols == 4
\* "a", "ab", "b"
SymbolNames == {<<97>>, <<97, 98>>, <<98>>}
OnlyEnsured == IF call.fn = "none" THEN TRUE ELSE call.onlyEnsure

SymbolAdd(name) ==
  /\ Len(symbols) < MaxSymbols
  /\ symbols' = wrenSymbolTableAdd(symbols, name).table
  /\ call' = [fn |-> "wrenSymbolTableAdd", name |-> name,
              index |-> wrenSymbolTableAdd(symbols, name).index,
              before |-> symbols, onlyEnsure |-> FALSE]
  /\ UNCHANGED <<map, live, list, vm, roots, last, hung>>

SymbolEnsure(name) ==
  /\ Len(symbols) < MaxSymbols \/ wrenSymbolTableFind(symbols, name, 0) # -1
  /\ symbols' = wrenSymbolTableEnsure(symbols, name).table
  /\ call' = [fn |-> "wrenSymbolTableEnsure", name |-> name,
              index |-> wrenSymbolTableEnsure(symbols, name).index,
              before |-> symbols, onlyEnsure |-> OnlyEnsured]
  /\ UNCHANGED <<map, live, list, vm, roots, last, hung>>

NextSymbols ==
  \/ \E name \in SymbolNames : SymbolAdd(name)
  \/ \E name \in SymbolNames : SymbolEnsure(name)

SpecSymbols == Init /\ [][NextSymbols]_vars

(***************************************************************************)
(* Lists created with elements.  wrenNewList(numElements) leaves the       *)
(* elements as the allocation returned them; the caller stores them        *)
(* afterwards, one by one, and may allocate in between.                    *)
(***************************************************************************)
\* largest numElements of a list created with elements
MaxUnfilled == 2
\* how many lists the heap holds
MaxLists == 1

Unfilled(numElements) == [i \in 0 .. numElements - 1 |-> GARBAGE_VAL]

UnfilledList(numElements, gc) ==
  /\ Room(1)
  /\ Cardinality(OfType(vm, "list")) < MaxLists
  /\ LeaveNew("newList",
              vmNewList(Enter, numElements, Unfilled(numElements), gc))

\* list->elements.data[i] = value, by the caller of wrenNewList
FillElement(l, i, value) ==
  /\ i < vm.heap[l].elements.count
  /\ vm.heap[l].elements.data[i] = GARBAGE_VAL
  /\ CanPass(ValObjs({value}), FALSE)
  /\ Leave("fillElement", [Enter EXCEPT !.heap[l].elements.data[i] = value],
           NULL)

\* wrenNewString, whatever else the heap holds
StringBeside(text, gc) ==
  /\ Room(1)
  /\ Cardinality(OfType(vm, "string")) < MaxStrings
  /\ LeaveNew("newString", vmNewString(Enter, text, gc))

NextFill ==
  \/ \E numElements \in 0 .. MaxUnfilled, gc \in BOOLEAN :
       UnfilledList(numElements, gc)
  \/ \E l \in OfType(vm, "list"), i \in 0 .. MaxUnfilled - 1,
        value \in {NUM_VAL(One)} \cup HeapVals :
       FillElement(l, i, value)
  \/ \E text \in Texts, gc \in BOOLEAN : StringBeside(text, gc)
  \/ \E obj \in {vm.first} \cap Live(vm) : PushRoot(obj)
  \/ PopRoot

SpecFill == Init /\ [][NextFill]_vars

(***************************************************************************)
(* Functions of a module that only its creator holds: wrenNewModule        *)
(* returns the module, and nothing enters it in the module table.          *)
(***************************************************************************)
NewModule(name, gc) ==
  /\ Room(1) /\ Fewer("module")
  /\ CanPass({name} \ {NULL}, gc)
  /\ LeaveNew("newModule", wrenNewModule(Enter, name, gc))

NextGraph ==
  \/ \E text \in Texts : NewString(text, FALSE)
  \/ \E name \in NewestOrNull("string") : NewModule(name, FALSE)
  \/ \E module \in OfType(vm, "module"), constants \in Seqs1(HeapVals),
        numUpvalues \in 0 .. 1, debugSourcePath \in NewestOrNull("string") :
       NewFunction(module, constants, numUpvalues, 1, debugSourcePath, 1, FALSE)
  \/ \E fn \in HeldOf("fn") : NewClosure(fn, FALSE)
  \/ \E obj \in {vm.first} \cap Live(vm) : PushRoot(obj)
  \/ PopRoot
  \/ CollectGarbage

SpecGraph == Init /\ [][NextGraph]_vars

(***************************************************************************)
(* Equality and hashing of two values.  The values: null, the booleans,    *)
(* numbers, and MaxCopies objects of each shape of string, range, class    *)
(* and fiber, every object at an address of its own.                       *)
(***************************************************************************)
\* how many objects of one shape are compared
MaxCopies == 2

ComparedNums == {PosZero, NegZero, One, NaN}
NewRangeAt(ptr, from, to, isInclusive) ==
  [NoObj EXCEPT !.ptr = ptr, !.type = "range", !.from = from, !.to = to,
                !.isInclusive = isInclusive]
NewClassAt(ptr, name) ==
  [NoObj EXCEPT !.ptr = ptr, !.type = "class",
                !.name = [bytes |-> name, hash |-> hashString(name)]]
NewFiberAt(ptr) == [NoObj EXCEPT !.ptr = ptr, !.type = "fiber", !.id = ptr]
ComparedShapes ==
  <<wrenNewString(0, <<97>>), wrenNewString(0, <<98>>),
    NewClassAt(0, <<97>>), NewFiberAt(0),
    NewRangeAt(0, PosZero, One, FALSE), NewRangeAt(0, PosZero, One, TRUE),
    NewRangeAt(0, NegZero, One, FALSE), NewRangeAt(0, NegZero, One, TRUE)>>
ComparedObjs ==
  {LET ptr == (copy - 1) * Len(ComparedShapes) + shape
       o == ComparedShapes[shape]
   IN  IF o.type = "fiber" THEN NewFiberAt(ptr) ELSE [o EXCEPT !.ptr = ptr] :
     shape \in DOMAIN ComparedShapes, copy \in 1 .. MaxCopies}
ComparedValues ==
  {NULL_VAL, TRUE_VAL, FALSE_VAL}
    \cup {NUM_VAL(d) : d \in ComparedNums}
    \cup {OBJ_VAL(o) : o \in ComparedObjs}

ValuesEqual(a, b) ==
  /\ call = NoCall
  /\ call' = [fn |-> "wrenValuesEqual", a |-> a, b |-> b,
              result |-> wrenValuesEqual(a, b),
              hashes |-> <<hashValue(a), hashValue(b)>>]
  /\ UNCHANGED <<map, live, list, vm, roots, last, hung, symbols>>

NextEqual == \E a \in ComparedValues, b \in ComparedValues : ValuesEqual(a, b)

SpecEqual == Init /\ [][NextEqual]_vars

(***************************************************************************)
(* Claims about the hash map (checked under SpecMap).                      *)
(***************************************************************************)
Returned(v) == [returns |-> TRUE, value |-> v]
SelfEqual(v) == wrenValuesEqual(v, v)
Occupied(m) == {i \in DOMAIN m.entries : ~IS_UNDEFINED(m.entries[i].key)}
Tombstones(m) ==
  {i \in DOMAIN m.entries :
     IS_UNDEFINED(m.entries[i].key) /\ ~IS_FALSE(m.entries[i].value)}
RECURSIVE SumLive(_)
SumLive(k) == IF k = 0 THEN 0 ELSE live[k] + SumLive(k - 1)
RECURSIVE IsMinCapacityTimesPowerOf2(_)
IsMinCapacityTimesPowerOf2(c) ==
  IF c < MIN_CAPACITY THEN FALSE
  ELSE IF c = MIN_CAPACITY THEN TRUE
  ELSE c % 2 = 0 /\ IsMinCapacityTimesPowerOf2(c \div 2)

\* C1 as stated: whenever wrenMapSet(m, k, v) has returned, wrenMapGet(m, k)
\* returns v, for every key k.
C1_SetThenGet ==
  (last.op = "set" /\ last.returns)
    => wrenMapGet(map, last.key) = Returned(last.value)

\* C1 amended: whenever wrenMapSet(m, k, v) has returned and k is a key that
\* wrenValuesEqual holds equal to itself (every key but a NaN number),
\* wrenMapGet(m, k) returns v.
C1_SetThenGet_SelfEqualKey ==
  (last.op = "set" /\ last.returns /\ SelfEqual(last.key))
    => wrenMapGet(map, last.key) = Returned(last.value)

\* A set of a self-equal key has just grown the table from 16 to 32 slots.
C1_Witness ==
  /\ last.op = "set" /\ last.returns /\ SelfEqual(last.key)
  /\ map.capacity = MIN_CAPACITY * GROW_FACTOR
  /\ map.count = (MIN_CAPACITY * MAP_LOAD_PERCENT) \div 100 + 1

\* C2: whenever wrenMapRemoveKey(m, k) has returned, wrenMapGet(m, k) returns
\* undefined.
C2_RemoveThenGet ==
  (last.op = "remove" /\ last.returns)
    => wrenMapGet(map, last.key) = Returned(UNDEFINED_VAL)

\* C3: count is the number of keys set and neither removed nor cleared since,
\* and the number of occupied slots.
C3_CountIsLiveKeys ==
  /\ map.count = SumLive(Len(MapKeys))
  /\ map.count = Cardinality(Occupied(map))

\* Two equal keys have been set (the second replaced the value of the first),
\* other keys are live, and a removal has left a tombstone.
C3_Witness ==
  /\ live[1] = 1 /\ live[2] = 0
  /\ last.op = "set" /\ last.key = MapKeys[2]
  /\ map.count > 2
  /\ Tombstones(map) # {}

\* C4: after every completed operation count <= capacity * 75 / 100, and the
\* capacity is 0 or 16 * 2^n.
C4_LoadAndCapacity ==
  ~hung =>
    /\ map.count <= (map.capacity * MAP_LOAD_PERCENT) \div 100
    /\ (map.capacity = 0 \/ IsMinCapacityTimesPowerOf2(map.capacity))

\* A removal has just shrunk the table from 32 slots back to 16.
C4_Witness ==
  /\ last.op = "remove" /\ ~hung
  /\ map.capacity = MIN_CAPACITY
  /\ map.count = ((MIN_CAPACITY * MAP_LOAD_PERCENT) \div 100) - 1
  /\ Tombstones(map) = {}

\* C5: for a key with no live entry wrenMapGet returns undefined and
\* wrenMapRemoveKey returns null and leaves the map as it is; for a key with a
\* live entry wrenMapRemoveKey returns the stored value.
C5_AbsentKeys ==
  \A k \in KeyIds :
    LET r == wrenMapRemoveKey(map, [stack |-> roots, trace |-> <<>>], MapKeys[k])
        g == wrenMapGet(map, MapKeys[k])
    IN IF LiveEqual(k) = {}
       THEN /\ g = Returned(UNDEFINED_VAL)
            /\ r.returns /\ r.value = NULL_VAL /\ r.map = map
       ELSE /\ g.returns /\ r.returns /\ r.value = g.value

\* the slots that are truly empty: no key and the value false
EmptySlots(m) == {i \in DOMAIN m.entries : m.entries[i] = EmptyEntry}

\* C18: the probe loops always terminate: no operation has entered a loop it
\* never leaves, wrenMapGet returns for every key, and after any sequence of
\* set, remove and clear an entry array of capacity > 0 has at least one
\* truly empty slot.
C18_ProbesTerminate ==
  /\ ~hung
  /\ \A k \in KeyIds : wrenMapGet(map, MapKeys[k]).returns
  /\ map.capacity > 0 => EmptySlots(map) # {}

\* the first slot without a key (truly empty or a tombstone) on the probe
\* sequence of m that starts at index; -1 when every slot holds a key
RECURSIVE FirstFreeSlot(_, _, _)
FirstFreeSlot(m, index, visited) ==
  IF visited = m.capacity THEN -1
  ELSE IF IS_UNDEFINED(m.entries[index].key) THEN index
  ELSE FirstFreeSlot(m, (index + 1) % m.capacity, visited + 1)

\* wrenMapSet does not resize m before it adds one more key
SetKeepsEntries(m) ==
  /\ m.capacity > 0
  /\ m.count + 1 <= (m.capacity * MAP_LOAD_PERCENT) \div 100

\* C19: wrenMapSet of a key that is not in the map, when the table is not
\* grown first, returns and stores the new entry in the first slot that is
\* empty or a tombstone on the probe sequence from hash mod capacity, leaving
\* every other slot as it was; so tombstones are reused.
C19_InsertReusesTombstones ==
  \A k \in KeyIds :
    (LiveEqual(k) = {} /\ SetKeepsEntries(map)) =>
      LET r == wrenMapSet(map, MapKeys[k], MapVals[1])
          slot == FirstFreeSlot(map, U32Mod(hashValue(MapKeys[k]), map.capacity), 0)
      IN /\ r.returns
         /\ slot # -1
         /\ r.map.entries =
              [map.entries EXCEPT ![slot] = [key |-> MapKeys[k], value |-> MapVals[1]]]

\* C19, its part that the code has: wrenMapSet of a key that is in the map
\* passes the tombstones on the probe sequence and replaces the value in the
\* slot of the key, and a new key is stored in the first truly empty slot.
C19_InsertPassesTombstones ==
  \A k \in KeyIds :
    (SetKeepsEntries(map) /\ EmptySlots(map) # {}) =>
      LET r == wrenMapSet(map, MapKeys[k], MapVals[1])
          f == findEntry(map, MapKeys[k])
      IN /\ r.returns
         /\ f.found => r.map.entries = [map.entries EXCEPT ![f.index].value = MapVals[1]]
         /\ ~f.found =>
              \E i \in EmptySlots(map) :
                r.map.entries =
                  [map.entries EXCEPT ![i] = [key |-> MapKeys[k], value |-> MapVals[1]]]

\* the key/value associations of m
Assocs(m) == {<<m.entries[i].key, m.entries[i].value>> : i \in Occupied(m)}

\* new is a pure rehash of old: the same associations and count, no
\* tombstone, and wrenMapGet returns for every key of old, with the value of
\* the key when the key is equal to itself.
Rehashed(old, new) ==
  /\ Assocs(new) = Assocs(old)
  /\ new.count = old.count
  /\ Cardinality(Occupied(new)) = Cardinality(Occupied(old))
  /\ Tombstones(new) = {}
  /\ \A i \in Occupied(old) :
       LET e == old.entries[i]
           g == wrenMapGet(new, e.key)
       IN g.returns /\ (SelfEqual(e.key) => g.value = e.value)

GrowsOnSet(m) == m.count + 1 > (m.capacity * MAP_LOAD_PERCENT) \div 100
GrownMapCapacity(m) ==
  IF m.capacity * GROW_FACTOR > MIN_CAPACITY
  THEN m.capacity * GROW_FACTOR ELSE MIN_CAPACITY

\* C20: wrenMapSet grows the table exactly when count + 1 >
\* capacity * 75 / 100, to max(16, capacity * 2), and every resize, of a set
\* that grows and of a removal that shrinks, is a pure rehash: the new array
\* has the associations and the count of the old one and no tombstone, and
\* wrenMapGet finds every key in it that it can find at all.
C20_ResizeIsRehash ==
  [][/\ \A k \in KeyIds, i \in DOMAIN MapVals :
         (last'.key = MapKeys[k] /\ MapSet(k, MapVals[i])) =>
           IF GrowsOnSet(map)
           THEN /\ map'.capacity = GrownMapCapacity(map)
                /\ Rehashed(map, resizeMap(map, GrownMapCapacity(map)))
                /\ Tombstones(map') = {}
                /\ \A j \in Occupied(map) :
                     LET e == map.entries[j]
                     IN SelfEqual(e.key) =>
                          wrenMapGet(map', e.key) =
                            Returned(IF wrenValuesEqual(e.key, MapKeys[k])
                                     THEN MapVals[i] ELSE e.value)
           ELSE map'.capacity = map.capacity
     /\ \A k \in KeyIds :
         (/\ map'.capacity # map.capacity /\ map'.capacity # 0
          /\ MapRemoveKey(k)) =>
           LET entry == findEntry(map, MapKeys[k])
           IN /\ entry.found
              /\ Rehashed([map EXCEPT !.entries[entry.index] = TombstoneEntry,
                                      !.count = @ - 1],
                          map')]_vars

\* The 13th key has just grown the table from 16 to 32 slots; an entry has
\* moved to the upper half, and the NaN key is among the entries.
C20_Witness ==
  /\ last.op = "set" /\ last.returns
  /\ map.capacity = MIN_CAPACITY * GROW_FACTOR
  /\ map.count = (MIN_CAPACITY * MAP_LOAD_PERCENT) \div 100 + 1
  /\ \E j \in Occupied(map) : j >= MIN_CAPACITY
  /\ \E j \in Occupied(map) : ~SelfEqual(map.entries[j].key)

\* C21: wrenMapRemoveKey of a present key makes the slot a tombstone and
\* decrements count; when count becomes 0 the table is released (no entries,
\* capacity 0), else when capacity > 16 and count < (capacity / 2) * 75 / 100
\* the capacity is halved, else the table is otherwise unchanged.  In every
\* state capacity = 0 exactly when count = 0, and a map that is not empty has
\* a capacity of 16 or more.
C21_RemoveShrinksOrReleases ==
  /\ [](/\ (map.capacity = 0) <=> (map.count = 0)
        /\ map.count > 0 => map.capacity >= MIN_CAPACITY)
  /\ [][\A k \in KeyIds :
          (last'.key = MapKeys[k] /\ MapRemoveKey(k)
             /\ findEntry(map, MapKeys[k]).found) =>
            LET index == findEntry(map, MapKeys[k]).index
                count == map.count - 1
            IN /\ last'.ret = map.entries[index].value
               /\ map'.count = count
               /\ IF count = 0
                  THEN map'.capacity = 0 /\ map'.entries = <<>>
                  ELSE IF /\ map.capacity > MIN_CAPACITY
                          /\ count < ((map.capacity \div 2) * MAP_LOAD_PERCENT) \div 100
                  THEN /\ map'.capacity = map.capacity \div 2
                       /\ DOMAIN map'.entries = 0 .. (map.capacity \div 2) - 1
                  ELSE /\ map'.capacity = map.capacity
                       /\ map'.entries =
                            [map.entries EXCEPT ![index] = TombstoneEntry]]_vars

\* The removal of the only key of the map has released the table.
C21_Witness ==
  /\ last.op = "remove" /\ last.returns /\ last.ret # NULL_VAL
  /\ map = wrenNewMap

\* a step of wrenMapSet or wrenMapRemoveKey on key k that returns
UpdatesKey(k) ==
  /\ last'.key = MapKeys[k] /\ last'.returns
  /\ \/ \E i \in DOMAIN MapVals : MapSet(k, MapVals[i])
     \/ MapRemoveKey(k)

\* C28: for keys k and k' that are not wrenValuesEqual, wrenMapGet(m, k')
\* gives the same result before and after wrenMapSet(m, k, v) and before and
\* after wrenMapRemoveKey(m, k).
C28_UpdateLeavesOtherKeys ==
  [][\A k \in KeyIds : UpdatesKey(k) =>
       \A j \in KeyIds :
         ~wrenValuesEqual(MapKeys[k], MapKeys[j]) =>
           wrenMapGet(map', MapKeys[j]) = wrenMapGet(map, MapKeys[j])]_vars

\* a table in which every lookup returns: no slots, or an empty slot
HasEmptySlot(m) == m.capacity = 0 \/ EmptySlots(m) # {}

\* C28, for tables that keep an empty slot: the same, when the table has an
\* empty slot before and after the operation, so that every lookup returns.
C28_UpdateLeavesOtherKeys_EmptySlotLeft ==
  [][\A k \in KeyIds : (UpdatesKey(k) /\ HasEmptySlot(map) /\ HasEmptySlot(map')) =>
       \A j \in KeyIds :
         ~wrenValuesEqual(MapKeys[k], MapKeys[j]) =>
           /\ wrenMapGet(map, MapKeys[j]).returns
           /\ wrenMapGet(map', MapKeys[j]) = wrenMapGet(map, MapKeys[j])]_vars

(***************************************************************************)
(* Claims about the list (checked under SpecList).                         *)
(***************************************************************************)
Elements(l) == [i \in 0 .. l.count - 1 |-> l.data[i]]

\* C9: when wrenListRemoveAt(L, i) directly follows wrenListInsert(L, v, i)
\* on a list that was not empty, it returns v and L has the count and the
\* elements it had before the insert.
C9_InsertThenRemoveAt ==
  (/\ last.op = "listRemoveAt" /\ last.prev.op = "listInsert"
   /\ last.index = last.prev.index
   /\ last.prev.before.count > 0)
    => /\ last.ret = last.prev.value
       /\ list.count = last.prev.before.count
       /\ Elements(list) = Elements(last.prev.before)

\* Such a round trip in the middle of a list, whose insert grew the array.
C9_Witness ==
  /\ last.op = "listRemoveAt" /\ last.prev.op = "listInsert"
  /\ last.index = last.prev.index
  /\ last.index > 0 /\ last.index < last.prev.before.count
  /\ last.prev.before.count = last.prev.before.capacity
  /\ IS_OBJ(last.ret)

RECURSIVE OpenUpvalues(_, _)
OpenUpvalues(heap, upvalue) ==
  IF upvalue = NULL \/ heap[upvalue].type # "upvalue" THEN {upvalue}
  ELSE {upvalue} \cup OpenUpvalues(heap, heap[upvalue].nextUpvalue)

Refs(heap, a) ==
  LET o == heap[a]
  IN (CASE o.type = "class" ->
             {o.classObj, o.superclass, o.name}
               \cup {o.methods.data[i].fn :
                       i \in {j \in 1 .. o.methods.count :
                                o.methods.data[j].type = "block"}}
        [] o.type = "closure" ->
             {o.fn} \cup {o.upvalues[i] : i \in DOMAIN o.upvalues}
        [] o.type = "fiber" ->
             {o.frames[i] : i \in 1 .. o.numFrames}
               \cup ValObjs({o.stack[i] : i \in DOMAIN o.stack})
               \cup OpenUpvalues(heap, o.openUpvalues)
               \cup {o.caller, o.error}
        [] o.type = "fn" ->
             ValObjs({o.constants[i] : i \in DOMAIN o.constants})
               \cup {o.sourcePath, o.module}
        [] o.type = "instance" ->
             {o.classObj} \cup ValObjs({o.fields[i] : i \in DOMAIN o.fields})
        [] o.type = "list" ->
             ValObjs({o.elements.data[i] : i \in 0 .. o.elements.count - 1})
        [] o.type = "map" ->
             ValObjs(UNION {{o.map.entries[i].key, o.map.entries[i].value} :
                              i \in Occupied(o.map)})
        [] o.type = "module" ->
             ValObjs({o.variables.data[i] : i \in 0 .. o.variables.count - 1})
               \cup {o.name}
        [] o.type = "upvalue" -> ValObjs({o.closed})
        [] OTHER -> {}) \ {NULL}

\* The addresses reachable from the set S of addresses.
RECURSIVE Reach(_, _)
Reach(heap, S) ==
  LET T == S \cup UNION {Refs(heap, a) : a \in S}
  IN IF T = S THEN S ELSE Reach(heap, T)

\* The root set of the collection g: current fiber, modules, root stack.
RootSet(g) ==
  ({g.fiber} \cup g.modules \cup {g.stack[i] : i \in DOMAIN g.stack}) \ {NULL}
ListedAfter(g) == Listed([heap |-> g.heapAfter], g.firstAfter)

OnlyRootIsClass(g, A) ==
  /\ RootSet(g) = {A}
  /\ g.heapAfter[A].type = "class"
  /\ LET M == g.heapAfter[A].classObj
     IN /\ M \notin {NULL, A, vm.classClass}
        /\ g.heapAfter[M].type = "class"
        /\ g.heapAfter[M].classObj = vm.classClass
        /\ g.heapAfter[M].superclass = vm.classClass
        /\ g.heapAfter[vm.classClass].type = "class"
        /\ g.heapAfter[vm.classClass].classObj = vm.classClass

\* C7: the mark phase of every collection ends having traversed no object
\* twice, and when a class A is the only root, A, its metaclass and the root
\* Class are marked and on the list of all objects afterwards.
C7_MarkVisitsOnce ==
  \A i \in DOMAIN last.gcs :
    LET g == last.gcs[i]
    IN /\ \A j, k \in DOMAIN g.visits : g.visits[j] = g.visits[k] => j = k
       /\ \A A \in Addrs :
            (A \in g.listed /\ g.stack = <<A>> /\ g.fiber = NULL /\ g.modules = {}
             /\ A # vm.classClass /\ vm.classClass \in g.listed)
              => LET M == g.heapAfter[A].classObj
                 IN (g.heapAfter[A].type = "class" /\ M # NULL) =>
                      /\ {A, M, vm.classClass} \subseteq g.marked
                      /\ {A, M, vm.classClass} \subseteq ListedAfter(g)
                      /\ \A a \in {A, M, vm.classClass} :
                           g.heapAfter[a].type = "class"

\* A collection whose only root was a class built by wrenNewClass has kept
\* the class, its metaclass and Class, and freed another object.
C7_Witness ==
  \E i \in DOMAIN last.gcs, A \in Addrs :
    LET g == last.gcs[i]
    IN /\ OnlyRootIsClass(g, A)
       /\ {A, g.heapAfter[A].classObj, vm.classClass} \subseteq g.marked
       /\ g.listed \ g.marked # {}
       /\ last.op = "collectGarbage"

\* The root stack after the events of trace from i on, starting from stack;
\* <<"unbalanced">> if an event pops below the depth at entry or overflows.
RECURSIVE Replay(_, _, _, _)
Replay(trace, i, stack, floor) ==
  IF i > Len(trace) THEN stack
  ELSE LET e == trace[i]
       IN IF e.ev = "push"
          THEN IF Len(stack) + 1 > MAX_TEMP_ROOTS \/ e.depth # Len(stack) + 1
               THEN <<"unbalanced">>
               ELSE Replay(trace, i + 1, Append(stack, e.ptr), floor)
          ELSE IF e.ev = "pop" /\ Len(stack) > floor
                  /\ e.ptr = stack[Len(stack)]
          THEN Replay(trace, i + 1, SubSeq(stack, 1, Len(stack) - 1), floor)
          ELSE <<"unbalanced">>

PushingOps == {"defineClass", "newClass", "newModule", "listInsert",
               "listRemoveAt", "mapRemoveKey"}

\* C8: each of wrenNewSingleClass, wrenNewClass, wrenNewModule,
\* wrenListInsert, wrenListRemoveAt and wrenMapRemoveKey returns with the
\* root stack it was entered with, having popped what it pushed, last pushed
\* first, and never below the depth at entry; the depth never exceeds 8.
C8_RootStackBalanced ==
  /\ Len(roots) <= MAX_TEMP_ROOTS
  /\ last.op \in PushingOps =>
       /\ roots = last.entry
       /\ Replay(last.trace, 1, last.entry, Len(last.entry)) = last.entry

\* wrenNewClass has returned, entered with a root on the stack, and has had
\* two roots of its own on the stack at once.
C8_Witness ==
  /\ last.op = "newClass" /\ Len(last.entry) = 1 /\ roots = last.entry
  /\ \E i \in DOMAIN last.trace :
       last.trace[i].ev = "push" /\ last.trace[i].depth = Len(last.entry) + 2
  /\ Cardinality({i \in DOMAIN last.trace : last.trace[i].ev = "pop"}) = 5

\* " metaclass"
MetaclassSuffix == SubSeq(MetaclassFormat, 2, Len(MetaclassFormat))

\* C22: when wrenNewClass has returned the class c, whatever collection ran
\* at one of its allocations, c is a class, its class is a metaclass m that
\* is another object, the name of m is a string of the bytes of c's name
\* followed by " metaclass", no collection of the call has freed the name,
\* or m or c while it was on the root stack, and no object reachable from c
\* is freed.
C22_NewClassKeepsItsObjects ==
  last.op = "newClass" =>
    LET c == last.obj
        m == vm.heap[c].classObj
        n == vm.heap[m].name
    IN /\ vm.heap[c].type = "class"
       /\ m \notin {NULL, c} /\ vm.heap[m].type = "class"
       /\ n # NULL /\ vm.heap[n].type = "string"
       /\ vm.heap[vm.heap[c].name].type = "string"
       /\ vm.heap[n].bytes = vm.heap[vm.heap[c].name].bytes \o MetaclassSuffix
       /\ \A i \in DOMAIN last.gcs :
            LET g == last.gcs[i]
            IN /\ g.heapAfter[n] = vm.heap[n] /\ n \in ListedAfter(g)
               /\ \A a \in {m, c} :
                    (\E j \in DOMAIN g.stack : g.stack[j] = a) =>
                      g.heapAfter[a].type = "class" /\ a \in ListedAfter(g)
       /\ \A a \in Reach(vm.heap, {c}) :
            vm.heap[a].type # "free" /\ a \in Listed(vm, vm.first)

\* wrenNewClass has returned a class; a collection ran while the class's
\* method table grew, with the metaclass and the class on the root stack, and
\* freed an object.
C22_Witness ==
  /\ last.op = "newClass"
  /\ \E i \in DOMAIN last.gcs :
       LET g == last.gcs[i]
       IN /\ g.listed \ g.marked # {}
          /\ \E j, k \in DOMAIN g.stack :
               /\ j < k /\ g.stack[k] = last.obj
               /\ g.stack[j] = vm.heap[last.obj].classObj

\* The values that the mark function of the object at a reads.
MarkedValues(heap, a) ==
  LET o == heap[a]
  IN CASE o.type = "fiber" -> {o.stack[i] : i \in DOMAIN o.stack}
       [] o.type = "fn" -> {o.constants[i] : i \in DOMAIN o.constants}
       [] o.type = "instance" -> {o.fields[i] : i \in DOMAIN o.fields}
       [] o.type = "list" ->
            {o.elements.data[i] : i \in 0 .. o.elements.count - 1}
       [] o.type = "map" ->
            UNION {{o.map.entries[i].key, o.map.entries[i].value} :
                     i \in DOMAIN o.map.entries}
       [] o.type = "module" ->
            {o.variables.data[i] : i \in 0 .. o.variables.count - 1}
       [] o.type = "upvalue" -> {o.closed}
       [] OTHER -> {}

\* Every value and every pointer that the mark function of the object at a
\* reads has been written: the values are not what an allocation left, and
\* the objects referred to are objects of the heap.
Complete(heap, a) ==
  /\ GARBAGE_VAL \notin MarkedValues(heap, a)
  /\ \A b \in Refs(heap, a) : b \in Addrs /\ heap[b].type # "free"

\* C23: every object that a collection has marked was complete when the
\* collection ran: each slot its mark function has read had been
\* initialised, for the objects of every constructor.
C23_MarkedObjectsComplete ==
  \A i \in DOMAIN last.gcs :
    LET g == last.gcs[i]
    IN \A a \in ListedAfter(g) : Complete(g.heapAfter, a)

\* vm->bytesAllocated when the mark phase that traversed the objects of
\* visits, from the i-th on, ends: it starts from 0.
RECURSIVE Accrued(_, _, _)
Accrued(heap, visits, i) ==
  IF i > Len(visits) THEN NoBytes
  ELSE Plus(markBytes(heap, visits[i]), Accrued(heap, visits, i + 1))

\* the bytes owned by the objects of S
RECURSIVE OwnedBy(_, _)
OwnedBy(heap, S) ==
  IF S = {} THEN NoBytes
  ELSE LET a == CHOOSE x \in S : TRUE
       IN Plus(ownedBytes(heap, a), OwnedBy(heap, S \ {a}))

\* C24: when the mark phase of a collection ends, bytesAllocated, reset to 0
\* before it, is the sum of the bytes owned by the marked objects, each
\* counted once: header, tail array and every buffer wrenFreeObj releases.
C24_MarkAccruesOwnedBytes ==
  \A i \in DOMAIN last.gcs :
    LET g == last.gcs[i]
    IN Accrued(g.heapAfter, g.visits, 1) = OwnedBy(g.heapAfter, g.marked)

\* C24 for the collections that mark no function and no module.
C24_MarkAccruesOwnedBytes_NoFnNoModule ==
  \A i \in DOMAIN last.gcs :
    LET g == last.gcs[i]
    IN (\A a \in g.marked : g.heapAfter[a].type \notin {"fn", "module"}) =>
         Accrued(g.heapAfter, g.visits, 1) = OwnedBy(g.heapAfter, g.marked)

\* C26: after a collection every object that a surviving object refers to
\* (a function's module included) has survived too: it is on the list of
\* all objects and has not been freed.
C26_SurvivorsClosed ==
  \A i \in DOMAIN last.gcs :
    LET g == last.gcs[i]
    IN \A a \in ListedAfter(g) :
         \A b \in Refs(g.heapAfter, a) :
           b \in ListedAfter(g) /\ g.heapAfter[b].type # "free"

(***************************************************************************)
(* Claims about classes (checked under SpecClass).                         *)
(***************************************************************************)
\* C11: when wrenNewClass(superclass, numFields, name) returns the class c,
\* c.numFields = numFields + superclass.numFields, c's superclass is
\* superclass, c's class is a metaclass that did not exist before the call,
\* and the metaclass has Class for its class and for its superclass.
C11_NewClassFields ==
  [][\A superclass \in OfType(vm, "class"), numFields \in 0 .. MaxNumFields,
        name \in Newest("string") :
       ClassNew(superclass, numFields, name) =>
         LET c == last'.obj
             h == vm'.heap
             m == h[c].classObj
         IN /\ IsFree(vm, c) /\ h[c].type = "class"
            /\ h[c].numFields = numFields + vm.heap[superclass].numFields
            /\ h[c].superclass = superclass
            /\ m # NULL /\ m # c /\ IsFree(vm, m) /\ h[m].type = "class"
            /\ h[m].classObj = vm.classClass
            /\ h[m].superclass = vm.classClass
            /\ h[superclass] = vm.heap[superclass]
            /\ h[vm.classClass] = vm.heap[vm.classClass]]_vars

\* A class A declaring 2 fields has a subclass B declaring 1 more: B has 3
\* fields, and its class is a metaclass of its own whose class and
\* superclass are Class.
C11_Witness ==
  \E A, B \in OfType(vm, "class") :
    /\ vm.heap[A].superclass = vm.classClass /\ vm.heap[A].numFields = 2
    /\ vm.heap[B].superclass = A /\ vm.heap[B].numFields = 3
    /\ vm.heap[B].classObj \notin {NULL, vm.heap[A].classObj, vm.classClass}
    /\ vm.heap[vm.heap[B].classObj].classObj = vm.classClass
    /\ vm.heap[vm.heap[B].classObj].superclass = vm.classClass
    /\ last.op = "newClass" /\ last.obj = B

\* Slot s of the method table methods, s from 0.
Slot(methods, s) == methods.data[s + 1]

\* C12: when wrenNewClass returns the class c of superclass super, each slot
\* s < super.methods.count of c holds the entry of super's slot s, and
\* c.methods.count >= super.methods.count (the same for c's metaclass and
\* Class); and wrenBindMethod(c, s, m) sets slot s of c to m, sets the slots
\* it creates below s to METHOD_NONE, and leaves every other slot of c and
\* every other class as it is.
C12_MethodsCopied ==
  [][/\ \A superclass \in OfType(vm, "class"), numFields \in 0 .. MaxNumFields,
          name \in Newest("string") :
         ClassNew(superclass, numFields, name) =>
           LET h == vm'.heap
               c == h[last'.obj]
               m == h[c.classObj]
               super == vm.heap[superclass]
               Class == vm.heap[vm.classClass]
           IN /\ c.methods.count >= super.methods.count
              /\ \A s \in 0 .. super.methods.count - 1 :
                   Slot(c.methods, s) = Slot(super.methods, s)
              /\ m.methods.count >= Class.methods.count
              /\ \A s \in 0 .. Class.methods.count - 1 :
                   Slot(m.methods, s) = Slot(Class.methods, s)
     /\ \A classObj \in {vm.first} \cap OfType(vm, "class"),
          symbol \in 0 .. MaxSymbol, method \in BoundMethods :
         ClassBind(classObj, symbol, method) =>
           LET old == vm.heap[classObj].methods
               new == vm'.heap[classObj].methods
           IN /\ Slot(new, symbol) = method
              /\ new.count = IF symbol < old.count THEN old.count
                             ELSE symbol + 1
              /\ \A s \in 0 .. new.count - 1 :
                   s # symbol =>
                     Slot(new, s) = IF s < old.count THEN Slot(old, s)
                                    ELSE METHOD_NONE
              /\ \A a \in Addrs \ {classObj} : vm'.heap[a] = vm.heap[a]]_vars

\* A class has inherited a METHOD_NONE slot 0 and a method in slot 1 from
\* its superclass.
C12_Witness ==
  \E A, B \in OfType(vm, "class") :
    /\ A # vm.classClass /\ vm.heap[B].superclass = A
    /\ vm.heap[A].methods.count = 2 /\ vm.heap[B].methods.count = 2
    /\ Slot(vm.heap[B].methods, 0) = METHOD_NONE
    /\ Slot(vm.heap[B].methods, 1) \in BoundMethods
    /\ Slot(vm.heap[B].methods, 1) = Slot(vm.heap[A].methods, 1)

(***************************************************************************)
(* Claims about wrenStringFind (checked under SpecFind).                   *)
(***************************************************************************)
\* needle occurs in haystack at index i (from 0)
Occurs(haystack, needle, i) ==
  /\ i + Len(needle) <= Len(haystack)
  /\ SubSeq(haystack, i + 1, i + Len(needle)) = needle

\* C13: when wrenStringFind(H, N) returns an index i other than NOT_FOUND, N
\* occurs in H at i and at no smaller index; when it returns NOT_FOUND, N
\* occurs nowhere in H; for an empty N it returns 0 and for an N longer than
\* H it returns NOT_FOUND.
C13_FindFirstOccurrence ==
  (call.fn = "wrenStringFind" /\ call.result.returns) =>
    LET H == call.haystack
        N == call.needle
        i == call.result.value
    IN /\ IF i # NOT_FOUND
          THEN /\ i[1] = 0 /\ Occurs(H, N, i[2])
               /\ \A j \in 0 .. i[2] - 1 : ~Occurs(H, N, j)
          ELSE \A j \in 0 .. Len(H) : ~Occurs(H, N, j)
       /\ (N = <<>> => i = ToU32(0))
       /\ (Len(N) > Len(H) => i = NOT_FOUND)

\* C13 for the strings without the byte 0xFF: the same, and the function
\* returns.
C13_FindWithoutByte255 ==
  (/\ call.fn = "wrenStringFind"
   /\ \A k \in DOMAIN call.haystack : call.haystack[k] # UINT8_MAX
   /\ \A k \in DOMAIN call.needle : call.needle[k] # UINT8_MAX)
    => call.result.returns /\ C13_FindFirstOccurrence

\* C25: in a call of wrenStringFind that searches (the needle is not empty
\* and not longer than the haystack), every byte of the haystack that can
\* end a search window has an entry in the shift table, the entry is between
\* 1 and the length of the needle, and the call returns.
C25_ShiftTableCoversBytes ==
  (/\ call.fn = "wrenStringFind"
   /\ call.needle # <<>> /\ Len(call.needle) <= Len(call.haystack)) =>
    LET H == call.haystack
        N == call.needle
        shift == shiftFrom(N, shiftDefault(N), 0)
    IN /\ \A k \in Len(N) .. Len(H) :
            /\ H[k] \in DOMAIN shift
            /\ shift[H[k]] \in 1 .. Len(N)
       /\ call.result.returns

(***************************************************************************)
(* Claims about UTF-8 (checked under SpecUtf8).                            *)
(***************************************************************************)
\* C14: for a code point c of 0 .. 0x10FFFF wrenUtf8Encode writes
\* wrenUtf8NumBytes(c) bytes, 1, 2, 3 or 4 for c <= 0x7F, <= 0x7FF,
\* <= 0xFFFF, <= 0x10FFFF, and wrenUtf8Decode of those bytes with that
\* length returns c.
C14_EncodeDecode ==
  call.fn = "wrenUtf8Encode" =>
    /\ Len(call.bytes) = call.numBytes
    /\ call.numBytes = (IF call.value < 128 THEN 1
                        ELSE IF call.value < 2048 THEN 2
                        ELSE IF call.value < 65536 THEN 3 ELSE 4)
    /\ \A i \in DOMAIN call.bytes : call.bytes[i] \in 0 .. 255
    /\ call.decoded.value = call.value
    /\ call.decoded.read = call.numBytes

\* U+1F600 has been encoded as F0 9F 98 80 and decoded.
C14_Witness ==
  /\ call.fn = "wrenUtf8Encode" /\ call.value = 128512
  /\ call.bytes = <<240, 159, 152, 128>>
  /\ call.decoded.value = 128512

\* How many continuation bytes the lead byte b requires; -1 if b is no lead
\* byte (10xxxxxx or 11111xxx).
Required(b) ==
  IF b \in 0 .. 127 THEN 0
  ELSE IF b \in 192 .. 223 THEN 1
  ELSE IF b \in 224 .. 239 THEN 2
  ELSE IF b \in 240 .. 247 THEN 3
  ELSE -1
Malformed(bytes, length) ==
  \/ Required(bytes[1]) = -1
  \/ Required(bytes[1]) > length - 1
  \/ \E k \in 1 .. Required(bytes[1]) : bytes[k + 1] \notin 128 .. 191

\* C15: for a length >= 1 wrenUtf8Decode(bytes, length) returns -1 when the
\* first byte is no lead byte, when fewer continuation bytes than it
\* requires are within length, or when one of them is not 10xxxxxx, and a
\* code point >= 0 otherwise; it reads no byte at an index >= length.
C15_DecodeMalformed ==
  call.fn = "wrenUtf8Decode" =>
    /\ IF Malformed(call.bytes, call.length) THEN call.result.value = -1
       ELSE call.result.value >= 0
    /\ call.result.read <= call.length

\* A three byte sequence cut by a length of 2 has been rejected, the buffer
\* holding continuation bytes behind the lead byte.
C15_Witness ==
  /\ call.fn = "wrenUtf8Decode" /\ call.length = 2
  /\ call.bytes[1] = 224 /\ call.bytes[2] = 128 /\ call.bytes[3] = 191
  /\ call.result.value = -1

(***************************************************************************)
(* Claims about the hash of strings (checked under SpecHash).              *)
(***************************************************************************)
\* 32-bit FNV-1a of bytes from byte i on, h the hash so far
RECURSIVE Fnv1a(_, _, _)
Fnv1a(bytes, i, h) ==
  IF i > Len(bytes) THEN h
  ELSE Fnv1a(bytes, i + 1, U32Mul(U32Xor(h, <<0, bytes[i]>>), FNV_PRIME))

\* C16: the hash stored in the string wrenNewString creates is the 32-bit
\* FNV-1a of its bytes, each byte taken as a value of 0 .. 255, and two
\* strings created from the same bytes are wrenValuesEqual.
C16_HashIsFnv1a ==
  call.fn = "wrenNewString" =>
    /\ call.first.hash = Fnv1a(call.bytes, 1, FNV_OFFSET)
    /\ call.first.bytes = call.bytes
    /\ wrenValuesEqual(OBJ_VAL(call.first), OBJ_VAL(call.second))

\* C16 where char is unsigned or every byte is below 0x80.
C16_HashOfUnsignedBytes ==
  (/\ call.fn = "wrenNewString"
   /\ (call.charIsSigned => \A i \in DOMAIN call.bytes : call.bytes[i] < 128))
    => C16_HashIsFnv1a

(***************************************************************************)
(* Claims about the symbol table (checked under SpecSymbols).              *)
(***************************************************************************)
\* the name of the symbol of index i (from 0)
SymbolName(table, i) == SubSeq(table[i + 1].buffer, 1, table[i + 1].length)
\* the indices of the symbols named name
IndicesOf(table, name) ==
  {i \in 0 .. Len(table) - 1 : SymbolName(table, i) = name}

\* C17: wrenSymbolTableEnsure(name) on a table that holds the name returns
\* the index of its first symbol of that name, which is what
\* wrenSymbolTableFind returns, and leaves the table as it is; on a table
\* that does not, it appends the name and returns the last index.  A second
\* ensure of the name returns the same index and leaves the table as it is;
\* a table built with ensure alone holds no name twice; and an add or ensure
\* leaves every symbol of the table at its index.
C17_EnsureFindsOrAppends ==
  /\ call.fn = "wrenSymbolTableEnsure" =>
       /\ IF IndicesOf(call.before, call.name) # {}
          THEN /\ call.index \in IndicesOf(call.before, call.name)
               /\ \A i \in IndicesOf(call.before, call.name) : call.index <= i
               /\ call.index = wrenSymbolTableFind(call.before, call.name, 0)
               /\ symbols = call.before
          ELSE /\ wrenSymbolTableFind(call.before, call.name, 0) = -1
               /\ Len(symbols) = Len(call.before) + 1
               /\ call.index = Len(symbols) - 1
               /\ SymbolName(symbols, call.index) = call.name
       /\ wrenSymbolTableEnsure(symbols, call.name)
            = [table |-> symbols, index |-> call.index]
  /\ call.fn # "none" =>
       /\ SubSeq(symbols, 1, Len(call.before)) = call.before
       /\ \A name \in SymbolNames :
            wrenSymbolTableFind(call.before, name, 0) # -1 =>
              wrenSymbolTableFind(symbols, name, 0)
                = wrenSymbolTableFind(call.before, name, 0)
  /\ OnlyEnsured =>
       \A name \in SymbolNames : Cardinality(IndicesOf(symbols, name)) <= 1

\* An ensure of "a" has found it at index 1, behind "ab", in a table that
\* holds "a" twice.
C17_Witness ==
  /\ call.fn = "wrenSymbolTableEnsure" /\ call.name = <<97>>
  /\ call.index = 1 /\ symbols = call.before
  /\ SymbolName(symbols, 0) = <<97, 98>>
  /\ Cardinality(IndicesOf(symbols, <<97>>)) = 2

(***************************************************************************)
(* Claims about equality and hashing (checked under SpecEqual).            *)
(***************************************************************************)
\* C27: two values that wrenValuesEqual holds equal have the same
\* hashValue.
C27_EqualValuesHashEqual ==
  (call.fn = "wrenValuesEqual" /\ call.result) =>
    call.hashes[1] = call.hashes[2]

\* C27, its consequence for the map: two values that wrenValuesEqual holds
\* equal start probing at the same slot of a table of 16 or of 32 slots.
C27_EqualValuesSameSlot ==
  (call.fn = "wrenValuesEqual" /\ call.result) =>
    \A capacity \in {MIN_CAPACITY, MIN_CAPACITY * GROW_FACTOR} :
      U32Mod(call.hashes[1], capacity) = U32Mod(call.hashes[2], capacity)

====
